---- MODULE Spec2Model ----
(***************************************************************************)
(* A model of the churn demo: the synthetic data generator                 *)
(* (src/data_generation.py) and the supervisor workflow                    *)
(* (src/studio_app.py).                                                    *)
(*                                                                         *)
(* Dates are day numbers counted from 2022-01-01 (day 0); the strings the  *)
(* generator stores ('%Y-%m-%d') are modelled as <<year, month, day>>.     *)
(* Money is in cents, the uniform jitters are in hundredths.               *)
(***************************************************************************)
EXTENDS Integers, Sequences, FiniteSets, TLC

VARIABLES
    pc,               \* position of the running function
    now,              \* the wall-clock day datetime.now() returns
    num_customers,    \* generate_customers_data: parameter
    customers_data,   \* the customer list (result of generate_customers_data)
    events_avg,       \* generate_usage_events: events_per_customer_avg
    usage_events,     \* generate_usage_events: result list
    event_counter,    \* generate_usage_events: event_counter
    customers_with_tickets, \* generate_support_tickets: the sampled customers
    support_tickets,  \* generate_support_tickets: result list
    ticket_counter,   \* generate_support_tickets: ticket_counter
    historical_churned, \* generate_churn_events: the historical sample
    recent_churned,   \* generate_churn_events: the sample of the recent spike
    churn_events,     \* generate_churn_events: result list
    churn_counter,    \* generate_churn_events: churn_counter
    CUSTOMERS,        \* the store: rows of table CUSTOMERS
    CHURN_EVENTS,     \* the store: rows of table CHURN_EVENTS
    USAGE_EVENTS,     \* the store: rows of table USAGE_EVENTS
    SUPPORT_TICKETS,  \* the store: rows of table SUPPORT_TICKETS
    batch_start,      \* insert_*: the index i of the batch loop
    cust_idx,         \* generators: index of the customer the loop is at
    loop_left,        \* generators: iterations left of the inner loop
    rng_tape,         \* module `random`: the values the seeded stream has produced
    rng_pos,          \* module `random`: how many of them this run has consumed
    run_no,           \* 1 in the first run of the program, 2 in the run repeated
    prev_run,         \* the usage events the first run returned
    raised,           \* the exception the running function raised, "" when none
    node,             \* workflow: the node the graph runs next (Command.goto)
    messages,         \* State.messages
    plan,             \* State.plan
    current_step,     \* State.current_step
    agent_outputs,    \* State.agent_outputs: the (agent, output) pairs in insertion order
    execution_errors, \* State.execution_errors
    planning_complete, \* State.planning_complete
    synthesis_input,  \* what the synthesis chain was invoked with, None before
    model_calls,      \* the calls of supervisor_model made so far
    supervisor_runs,  \* the executions of supervisor_node since the plan was made
    planning_response, \* what the planning call of the run gave, None before it
    chunks,           \* parse_agent_stream_response: the chunks
    parsed            \* parse_agent_stream_response: what it returned or raised, None before

genVars == <<num_customers, customers_data>>
usageVars == <<events_avg, usage_events, event_counter, now>>
ticketVars == <<customers_with_tickets, support_tickets, ticket_counter>>
churnVars == <<historical_churned, recent_churned, churn_events, churn_counter>>
storeVars == <<CUSTOMERS, CHURN_EVENTS, USAGE_EVENTS, SUPPORT_TICKETS, batch_start>>
loopVars == <<cust_idx, loop_left>>
rngVars == <<rng_tape, rng_pos, run_no, prev_run>>
dataVars == <<pc, genVars, usageVars, ticketVars, churnVars, storeVars, loopVars, rngVars,
              raised>>
stateVars == <<messages, plan, current_step, agent_outputs, execution_errors,
               planning_complete>>
wfVars == <<node, stateVars, synthesis_input, model_calls, supervisor_runs,
           planning_response>>
parseVars == <<chunks, parsed>>
vars == <<dataVars, wfVars, parseVars>>

-----------------------------------------------------------------------------
(* Bounds of the model *)

MaxCustomers == 2
MaxUsageCustomers == 2
MaxRerunCustomers == 1
MaxTicketCustomers == 2

\* np.random.poisson(tickets_per_customer_avg) is explored at 0..MaxPoisson
MaxPoisson == 2

\* parse_agent_stream_response is given at most MaxChunks chunks
MaxChunks == 3
MaxBatches == 2
MaxTexts == 2
MaxMainRecords == 2

\* The plans of the planning model have at most MaxSteps steps
MaxSteps == 3

\* The customer lists handed to generate_churn_events
MaxHistorical == 34
MaxEdge == 1
MaxRecent == 1

\* The values of the seeded stream are the fractions r / RawTop, r \in 0..RawTop
RawTop == 360

-----------------------------------------------------------------------------
(* Calendar: datetime arithmetic, strftime('%Y-%m-%d'), strptime *)

START_DAY == 0
END_DAY == 1004
RECENT_CUTOFF == 912

\* generate_churn_events: a tenure of at most 30 days at the cutoff is skipped
MIN_TENURE == 30

\* insert_churn_events_data: batch_size
CHURN_BATCH_SIZE == 500
CUSTOMERS_BATCH_SIZE == 1000
USAGE_BATCH_SIZE == 1000
TICKETS_BATCH_SIZE == 500
CREATE_STATEMENTS == 6
VALIDATE_QUERIES == 7
USAGE_SUBSET == 2000

\* studio_app.py: the truncation limits and the stream errors kept
SYNTHESIS_LIMIT == 5000
RAW_LIMIT == 2000
STREAM_ERRORS_KEPT == 3

\* generate_support_tickets: at most 3000 customers get tickets, at most 10 each
TICKET_CUSTOMERS == 3000
TICKET_CAP == 10

\* The wall-clock days explored: 2024-08-18, 2024-10-01 and 2026-11-02
NowDays == {960, END_DAY, 1766}

\* The signup days of the customers handed to generate_usage_events
UsageSignupDays == {0, END_DAY, END_DAY + 1}
UsagePlans == {"starter", "professional", "enterprise", "premium"}
EventsAvgs == {0, 1}

\* The signup days of the customers handed to generate_support_tickets
TicketSignupDays == {0, END_DAY, END_DAY + 1}

IsLeap(y) == (y % 4 = 0 /\ y % 100 # 0) \/ y % 400 = 0

DaysInMonth(y, m) ==
    IF m = 2 THEN (IF IsLeap(y) THEN 29 ELSE 28)
    ELSE IF m \in {4, 6, 9, 11} THEN 30 ELSE 31

RECURSIVE YmdFrom(_, _, _)
YmdFrom(y, m, n) ==
    IF n < DaysInMonth(y, m) THEN <<y, m, n + 1>>
    ELSE IF m = 12 THEN YmdFrom(y + 1, 1, n - DaysInMonth(y, m))
    ELSE YmdFrom(y, m + 1, n - DaysInMonth(y, m))

\* (start_date + timedelta(days=n)).strftime('%Y-%m-%d')
strftime(n) == YmdFrom(2022, 1, n)

RECURSIVE DaysBefore(_, _)
DaysBefore(y, m) ==
    IF y = 2022 /\ m = 1 THEN 0
    ELSE IF m = 1 THEN DaysBefore(y - 1, 12) + 31
    ELSE DaysBefore(y, m - 1) + DaysInMonth(y, m - 1)

\* (datetime.strptime(s, '%Y-%m-%d') - datetime(2022, 1, 1)).days
strptime(s) == DaysBefore(s[1], s[2]) + s[3] - 1

-----------------------------------------------------------------------------
(* Formatting of the record ids: f"{prefix}{n:0{width}d}" *)

Digit == <<"0", "1", "2", "3", "4", "5", "6", "7", "8", "9">>

RECURSIVE Decimal(_)
Decimal(n) == IF n < 10 THEN Digit[n + 1] ELSE Decimal(n \div 10) \o Digit[(n % 10) + 1]

RECURSIVE NumDigits(_)
NumDigits(n) == IF n < 10 THEN 1 ELSE 1 + NumDigits(n \div 10)

RECURSIVE Zeros(_)
Zeros(k) == IF k <= 0 THEN "" ELSE "0" \o Zeros(k - 1)

ZeroPad(n, width) == Zeros(width - NumDigits(n)) \o Decimal(n)

\* The character of s at position i, "" past the end
Ch(s, i) == IF i >= 1 /\ i <= Len(s) THEN SubSeq(s, i, i) ELSE ""

\* Body(value), the value computed once: a local variable of the code
Bind(value, Body(_)) == CHOOSE result \in {Body(v) : v \in {value}} : TRUE

-----------------------------------------------------------------------------
(* The draws of the seeded generators.  A value r \in 0..RawTop of the     *)
(* stream stands for the fraction r / RawTop; each call maps it onto its   *)
(* range.                                                                  *)

\* random.randint(a, b) on stream value r (a <= b)
randint(a, b, r) == a + (r * (b - a)) \div RawTop

\* random.uniform(lo, hi) on stream value r, in the unit of lo and hi
uniform(lo, hi, r) == lo + (r * (hi - lo)) \div RawTop

\* random.choice(items) on stream value r
choice(items, r) == items[1 + (r * (Len(items) - 1)) \div RawTop]

\* The stream values explored: both ends of the range
RawEnds == {0, RawTop}

\* The stream values explored: both ends and the middle
RawMid == {0, RawTop \div 2, RawTop}

\* The stream values explored: one for each of n outcomes
RawFor(n) == IF n <= 1 THEN {0} ELSE {(i * RawTop + n - 2) \div (n - 1) : i \in 0..(n - 1)}

\* np.random.choice(items, p=weights): every item of positive weight
WeightedChoice(items, weights) ==
    {items[i] : i \in {j \in 1..Len(items) : weights[j] > 0}}

-----------------------------------------------------------------------------
(* generate_customers_data *)

plan_types == <<"starter", "professional", "enterprise", "premium">>
company_sizes == <<"small", "medium", "large", "enterprise">>
size_weights == <<50, 30, 15, 5>>

industries == <<"technology", "healthcare", "finance", "retail", "manufacturing",
                "education", "consulting", "media", "real_estate", "non_profit">>

revenue_base ==
    [starter      |-> [small |-> 29,  medium |-> 49,   large |-> 99,   enterprise |-> 199],
     professional |-> [small |-> 99,  medium |-> 199,  large |-> 399,  enterprise |-> 799],
     enterprise   |-> [small |-> 299, medium |-> 599,  large |-> 1199, enterprise |-> 2399],
     premium      |-> [small |-> 599, medium |-> 1199, large |-> 2399, enterprise |-> 4799]]

plan_weights_adj(company_size) ==
    IF company_size = "enterprise" THEN <<10, 20, 40, 30>>
    ELSE IF company_size = "large" THEN <<20, 40, 30, 10>>
    ELSE IF company_size = "medium" THEN <<30, 40, 20, 10>>
    ELSE <<60, 30, 8, 2>>

\* The id counted from zero
CustomerIdFromZero(i) == "CUST_" \o ZeroPad(i, 6)

CustomerId(i) == "CUST_" \o ZeroPad(i + 1, 6)

\* One iteration of the loop `for i in range(num_customers)`
NewCustomer(i, random_days, company_size, plan_type, industry, revenue_variance) ==
    [customer_id     |-> CustomerId(i),
     signup_date     |-> strftime(START_DAY + random_days),
     plan_type       |-> plan_type,
     company_size    |-> company_size,
     industry        |-> industry,
     status          |-> "active",
     monthly_revenue |-> revenue_base[plan_type][company_size] * revenue_variance]

\* The state of the parts of the program a specification does not run
IdleUsage == events_avg = 0 /\ usage_events = <<>> /\ event_counter = 1 /\ now = END_DAY
IdleTickets == customers_with_tickets = <<>> /\ support_tickets = <<>> /\ ticket_counter = 1
IdleChurn ==
    historical_churned = <<>> /\ recent_churned = <<>> /\ churn_events = <<>> /\ churn_counter = 1
IdleStore ==
    /\ CUSTOMERS = <<>> /\ CHURN_EVENTS = <<>> /\ USAGE_EVENTS = <<>> /\ SUPPORT_TICKETS = <<>>
    /\ batch_start = 0
IdleWorkflow ==
    /\ node = "__end__" /\ messages = <<>> /\ plan = <<>> /\ current_step = 0
    /\ agent_outputs = <<>> /\ execution_errors = <<>> /\ planning_complete = FALSE
    /\ synthesis_input = <<>> /\ model_calls = 0 /\ supervisor_runs = 0
    /\ planning_response = <<>>
IdleParse == chunks = <<>> /\ parsed = <<>>
IdleLoop == cust_idx = 0 /\ loop_left = 0
IdleRng == rng_tape = <<>> /\ rng_pos = 0 /\ run_no = 1 /\ prev_run = <<>>

InitCustomers ==
    /\ pc = "generate_customers_data"
    /\ num_customers \in 0..MaxCustomers
    /\ customers_data = <<>>
    /\ IdleUsage /\ IdleTickets /\ IdleChurn /\ IdleStore /\ IdleLoop /\ IdleRng
    /\ raised = ""
    /\ IdleWorkflow
    /\ IdleParse

GenerateCustomer ==
    /\ pc = "generate_customers_data"
    /\ cust_idx < num_customers
    /\ \E r1 \in RawEnds, r2 \in RawEnds, r3 \in RawEnds,
          company_size \in WeightedChoice(company_sizes, size_weights) :
         \E plan_type \in WeightedChoice(plan_types, plan_weights_adj(company_size)) :
            customers_data' = Append(customers_data,
                NewCustomer(cust_idx,
                            randint(0, END_DAY - START_DAY, r1),
                            company_size, plan_type,
                            choice(industries, r2),
                            uniform(80, 120, r3)))
    /\ cust_idx' = cust_idx + 1
    /\ UNCHANGED <<churnVars, storeVars, ticketVars, pc, num_customers, usageVars, loop_left, rngVars, raised, wfVars, parseVars>>

GenerateCustomersReturn ==
    /\ pc = "generate_customers_data"
    /\ cust_idx >= num_customers
    /\ pc' = "customers_returned"
    /\ UNCHANGED <<churnVars, storeVars, ticketVars, genVars, usageVars, loopVars, rngVars, raised, wfVars, parseVars>>

NextCustomers == GenerateCustomer \/ GenerateCustomersReturn

SpecCustomers == InitCustomers /\ [][NextCustomers]_vars

-----------------------------------------------------------------------------
(* generate_usage_events *)

features == <<"dashboard_view", "report_generation", "data_export", "user_management",
              "api_calls", "integrations", "analytics", "collaboration", "mobile_app">>

plan_features ==
    [starter      |-> <<"dashboard_view", "report_generation", "mobile_app">>,
     professional |-> <<"dashboard_view", "report_generation", "data_export",
                        "analytics", "mobile_app">>,
     enterprise   |-> <<"dashboard_view", "report_generation", "data_export",
                        "user_management", "api_calls", "integrations", "analytics",
                        "collaboration">>,
     premium      |-> features]

\* in tenths
plan_multiplier == [starter |-> 7, professional |-> 10, enterprise |-> 15, premium |-> 20]

base_duration ==
    [dashboard_view |-> 15, report_generation |-> 45, data_export |-> 30,
     user_management |-> 20, api_calls |-> 5, integrations |-> 60,
     analytics |-> 90, collaboration |-> 35, mobile_app |-> 10]

Min(a, b) == IF a <= b THEN a ELSE b
Max(a, b) == IF a >= b THEN a ELSE b

\* int(events_per_customer_avg * plan_multiplier[plan_type] * random.uniform(0.5, 1.5))
num_events(avg, plan_type, r) ==
    (avg * plan_multiplier[plan_type] * uniform(50, 150, r)) \div 1000

\* The end date without the cap of 2024-10-01
usage_end_date_uncapped(today) == today

\* end_date = min(datetime(2024, 10, 1), datetime.now())
usage_end_date(today) == Min(END_DAY, today)

\* days_active = (end_date - signup_date).days
days_active(customer, today) == usage_end_date(today) - strptime(customer.signup_date)

\* The customer the loop `for customer in customers_data` is at
customer_at == customers_data[cust_idx + 1]

\* The stream value a call reads at offset j: the recorded one when the stream
\* has been there, else any of those explored
StreamAt(j, explored) ==
    IF rng_pos + j <= Len(rng_tape) THEN {rng_tape[rng_pos + j]} ELSE explored

\* The stream after the calls that read the values rs
Consume(rs) ==
    /\ rng_pos' = rng_pos + Len(rs)
    /\ rng_tape' = IF rng_pos + Len(rs) <= Len(rng_tape) THEN rng_tape
                   ELSE SubSeq(rng_tape, 1, rng_pos) \o rs

EventId(n) == "EVT_" \o ZeroPad(n, 8)

\* One iteration of the loop `for _ in range(num_events)`
NewUsageEvent(customer, n, active, r_days, r_feature, r_duration, r_actions) ==
    LET signup_date == strptime(customer.signup_date)
        event_date == signup_date + randint(0, active, r_days)
        feature_used == choice(plan_features[customer.plan_type], r_feature)
        duration == (base_duration[feature_used] * uniform(30, 200, r_duration)) \div 100
    IN  [event_id                 |-> EventId(n),
         customer_id              |-> customer.customer_id,
         event_date               |-> strftime(event_date),
         feature_used             |-> feature_used,
         session_duration_minutes |-> duration,
         actions_count            |-> randint(1, Max(1, duration \div 3), r_actions)]

\* A customer list as generate_customers_data returns it, up to the draws
InputCustomer(i, signup_day, plan_type) ==
    [NewCustomer(i, 0, "small", plan_type, "technology", 100)
        EXCEPT !.signup_date = strftime(signup_day)]

InitUsage ==
    /\ pc = "generate_usage_events"
    /\ now \in NowDays
    /\ num_customers \in 0..MaxUsageCustomers
    /\ \E days \in [1..num_customers -> UsageSignupDays],
          plans \in [1..num_customers -> UsagePlans] :
         customers_data = [i \in 1..num_customers |-> InputCustomer(i - 1, days[i], plans[i])]
    /\ events_avg \in EventsAvgs
    /\ usage_events = <<>> /\ event_counter = 1
    /\ IdleTickets /\ IdleChurn /\ IdleStore /\ IdleLoop /\ IdleRng
    /\ raised = ""
    /\ IdleWorkflow
    /\ IdleParse

\* Lines 206-218: the customer has no active day and is skipped
UsageSkipCustomer ==
    /\ pc = "generate_usage_events"
    /\ cust_idx < Len(customers_data)
    /\ days_active(customer_at, now) <= 0
    /\ \E r \in StreamAt(1, RawMid) : Consume(<<r>>)
    /\ cust_idx' = cust_idx + 1
    /\ UNCHANGED <<churnVars, storeVars, ticketVars, pc, genVars, usageVars, loop_left, run_no, prev_run, raised, wfVars, parseVars>>

\* Lines 206-222: the customer has active days and the event loop is entered
UsageEnterCustomer ==
    /\ pc = "generate_usage_events"
    /\ cust_idx < Len(customers_data)
    /\ days_active(customer_at, now) > 0
    /\ \E r \in StreamAt(1, RawMid) :
         LET n == num_events(events_avg, customer_at.plan_type, r)
         IN  /\ Consume(<<r>>)
             /\ loop_left' = n
             /\ IF n > 0
                 THEN pc' = "usage_event_loop" /\ cust_idx' = cust_idx
                 ELSE pc' = pc /\ cust_idx' = cust_idx + 1
    /\ UNCHANGED <<churnVars, storeVars, ticketVars, genVars, usageVars, run_no, prev_run, raised, wfVars, parseVars>>

\* Lines 222-246: one event of the customer
UsageEvent ==
    /\ pc = "usage_event_loop"
    /\ loop_left > 0
    /\ LET customer == customer_at
           active == days_active(customer, now)
       IN  \E r1 \in StreamAt(1, RawEnds),
              r2 \in StreamAt(2, RawMid),
              r3 \in StreamAt(3, {0}),
              r4 \in StreamAt(4, {RawTop}) :
             /\ Consume(<<r1, r2, r3, r4>>)
             /\ usage_events' = Append(usage_events,
                    NewUsageEvent(customer, event_counter, active, r1, r2, r3, r4))
    /\ event_counter' = event_counter + 1
    /\ loop_left' = loop_left - 1
    /\ IF loop_left = 1
       THEN pc' = "generate_usage_events" /\ cust_idx' = cust_idx + 1
       ELSE pc' = pc /\ cust_idx' = cust_idx
    /\ UNCHANGED <<churnVars, storeVars, ticketVars, genVars, events_avg, now, run_no, prev_run, raised, wfVars, parseVars>>

\* Line 249
UsageReturn ==
    /\ pc = "generate_usage_events"
    /\ cust_idx >= Len(customers_data)
    /\ pc' = "usage_returned"
    /\ UNCHANGED <<churnVars, storeVars, ticketVars, genVars, usageVars, loopVars, rngVars, raised, wfVars, parseVars>>

NextUsage == UsageSkipCustomer \/ UsageEnterCustomer \/ UsageEvent \/ UsageReturn

SpecUsage == InitUsage /\ [][NextUsage]_vars

\* The program is run a second time (lines 655-656): the module is loaded again,
\* random.seed(42) of line 18 restarts the stream, and the clock has moved on
RunAgain ==
    /\ pc = "usage_returned"
    /\ run_no = 1
    /\ run_no' = 2
    /\ prev_run' = usage_events
    /\ rng_pos' = 0
    /\ now' \in {d \in NowDays : d >= now}
    /\ usage_events' = <<>>
    /\ event_counter' = 1
    /\ cust_idx' = 0
    /\ loop_left' = 0
    /\ pc' = "generate_usage_events"
    /\ UNCHANGED <<genVars, events_avg, ticketVars, churnVars, storeVars, rng_tape, raised,
                   wfVars, parseVars>>

InitRerun == InitUsage /\ num_customers <= MaxRerunCustomers
NextRerun == NextUsage \/ RunAgain
SpecRerun == InitRerun /\ [][NextRerun]_vars

-----------------------------------------------------------------------------
(* generate_support_tickets *)

categories == <<"billing", "technical_issue", "feature_request", "account_access",
                "integration_help", "data_export", "performance", "training",
                "bug_report">>

priorities == <<"low", "medium", "high", "urgent">>
priority_weights == <<40, 35, 20, 5>>

statuses == <<"resolved", "closed", "pending">>
status_weights == <<70, 25, 5>>

priority_hours == [low |-> 48, medium |-> 24, high |-> 8, urgent |-> 2]

ticket_templates ==
    [billing |->
        <<"I was charged twice this month and need a refund. This is very frustrating as it affects our budget.",
          "Can you help me understand the billing changes? The new pricing seems much higher than expected.",
          "My payment failed but I'm not sure why. Can you help me resolve this quickly?",
          "I need to downgrade my plan but can't find the option. The current cost is too high for our small team.">>,
     technical_issue |->
        <<"The dashboard is loading very slowly and sometimes crashes. This is impacting our daily operations.",
          "I can't export data - getting an error message every time I try. This is blocking our reporting.",
          "The mobile app keeps crashing when I try to view reports. Very disappointing experience.",
          "API calls are failing intermittently. Our integration is broken and customers are complaining.">>,
     feature_request |->
        <<"Would love to see dark mode added to the interface. Many of our team members have requested this.",
          "Can you add more export formats? We need Excel compatibility for our stakeholders.",
          "Real-time notifications would be amazing for our workflow. Currently we miss important updates.",
          "Better mobile experience would help our field team access data on the go.">>,
     account_access |->
        <<"I forgot my password and the reset email isn't coming through. Need access urgently.",
          "Can you help me add new team members to our account? The process isn't clear.",
          "My account seems to be locked after multiple login attempts. Please help unlock it.",
          "Need to transfer account ownership to a new admin. What's the process for this?">>,
     integration_help |->
        <<"Having trouble connecting to Salesforce. The integration guide isn't clear enough.",
          "API documentation is confusing. Can someone walk me through the setup process?",
          "Webhook setup is failing. Getting authentication errors that I can't resolve.",
          "Need help with custom integration. Our development team is stuck on the implementation.">>,
     data_export |->
        <<"Large data exports are timing out. Need a solution for exporting our complete dataset.",
          "Export format is missing some columns we need. Can this be customized?",
          "Scheduled exports stopped working last week. Our automated reports are broken.",
          "Need help with bulk data migration. Moving to new system and need all historical data.">>,
     performance |->
        <<"System is very slow during peak hours. Reports take forever to load.",
          "Dashboard performance has degraded significantly over the past month.",
          "Query timeouts are happening frequently. This is impacting our productivity.",
          "Page load times are unacceptable. Considering switching to a competitor.">>,
     training |->
        <<"New team members need training on advanced features. Do you offer sessions?",
          "Looking for best practices documentation. Want to optimize our usage.",
          "Can you provide training materials for our specific use case?",
          "Onboarding process could be improved. New users are struggling to get started.">>,
     bug_report |->
        <<"Found a bug in the reporting module. Charts are showing incorrect data.",
          "Filter functionality is broken on the analytics page. Please investigate.",
          "Getting JavaScript errors in the browser console. Interface is unstable.",
          "Data synchronization issue - seeing stale data that should have updated hours ago.">>]

\* A field that is None holds no value
None == <<>>
Some(v) == <<v>>

\* random.sample(population, k): the sequences of k distinct elements
RECURSIVE sample(_, _)
sample(population, k) ==
    IF k = 0 THEN {<<>>}
    ELSE UNION {{<<population[i]>> \o rest :
                    rest \in sample([j \in 1..(Len(population) - 1) |->
                                        IF j < i THEN population[j] ELSE population[j + 1]],
                                    k - 1)} :
                i \in 1..Len(population)}

\* Line 338
ticket_days_since_signup(customer) == END_DAY - strptime(customer.signup_date)

\* The skip test that lets a zero-day tenure through
ticket_skipped_negative(days_since_signup) == days_since_signup < 0

\* Line 339: the ticket is skipped
ticket_skipped(days_since_signup) == days_since_signup <= 0

\* The resolution time with a jitter that starts at 0.3
resolution_time_low_jitter(status, priority, r) ==
    IF status \in {"resolved", "closed"}
    THEN <<(priority_hours[priority] * uniform(30, 200, r)) \div 100>>
    ELSE <<>>

\* Lines 352-357, in hours
resolution_time(status, priority, r) ==
    IF status \in {"resolved", "closed"}
    THEN Some((priority_hours[priority] * uniform(50, 200, r)) \div 100)
    ELSE None

\* Lines 360-368
satisfaction_score(status, priority, resolution, r) ==
    IF status \in {"resolved", "closed"}
    THEN IF priority = "urgent" /\ resolution[1] <= 4 THEN Some(choice(<<4, 5, 5>>, r))
         ELSE IF resolution[1] # 0 /\ resolution[1] > 72
              THEN Some(choice(<<1, 2, 2, 3>>, r))
              ELSE Some(choice(<<2, 3, 3, 4, 4>>, r))
    ELSE None

TicketId(n) == "TKT_" \o ZeroPad(n, 8)

\* Lines 342-380: one ticket
NewTicket(customer, n, days, r_days, r_category, priority, status, r_text, r_hours, r_score) ==
    LET signup_date == strptime(customer.signup_date)
        ticket_date == signup_date + randint(1, days, r_days)
        category == choice(categories, r_category)
        resolution == resolution_time(status, priority, r_hours)
    IN  [ticket_id             |-> TicketId(n),
         customer_id           |-> customer.customer_id,
         created_date          |-> strftime(ticket_date),
         category              |-> category,
         priority              |-> priority,
         status                |-> status,
         resolution_time_hours |-> resolution,
         satisfaction_score    |-> satisfaction_score(status, priority, resolution, r_score),
         ticket_text           |-> choice(ticket_templates[category], r_text)]

InitTickets ==
    /\ pc = "generate_support_tickets"
    /\ num_customers \in 0..MaxTicketCustomers
    /\ \E days \in [1..num_customers -> TicketSignupDays] :
         customers_data = [i \in 1..num_customers |-> InputCustomer(i - 1, days[i], "starter")]
    /\ IdleUsage /\ IdleTickets /\ IdleChurn /\ IdleStore /\ IdleLoop /\ IdleRng
    /\ raised = ""
    /\ IdleWorkflow
    /\ IdleParse

\* Line 327
TicketsSample ==
    /\ pc = "generate_support_tickets"
    /\ customers_with_tickets' \in
          sample(customers_data, Min(Len(customers_data), TICKET_CUSTOMERS))
    /\ pc' = "tickets_customer_loop"
    /\ UNCHANGED <<churnVars, storeVars, genVars, usageVars, support_tickets, ticket_counter, loopVars,
                   rngVars, raised, wfVars, parseVars>>

ticket_customer == customers_with_tickets[cust_idx + 1]

\* Lines 329-337: the Poisson draw; with no ticket the customer is passed over
TicketsNextCustomer ==
    /\ pc = "tickets_customer_loop"
    /\ cust_idx < Len(customers_with_tickets)
    /\ \E num_tickets \in 0..MaxPoisson :
         IF num_tickets = 0
         THEN /\ cust_idx' = cust_idx + 1
              /\ UNCHANGED <<pc, loop_left>>
         ELSE /\ loop_left' = Min(num_tickets, TICKET_CAP)
              /\ pc' = "ticket_loop"
              /\ UNCHANGED cust_idx
    /\ UNCHANGED <<churnVars, storeVars, genVars, usageVars, ticketVars, rngVars, raised, wfVars, parseVars>>

\* After an iteration of `for _ in range(min(num_tickets, 10))`
TicketLoopStep ==
    /\ loop_left' = loop_left - 1
    /\ IF loop_left = 1
       THEN pc' = "tickets_customer_loop" /\ cust_idx' = cust_idx + 1
       ELSE pc' = pc /\ cust_idx' = cust_idx

\* Lines 338-340: `continue`
TicketSkip ==
    /\ pc = "ticket_loop"
    /\ loop_left > 0
    /\ ticket_skipped(ticket_days_since_signup(ticket_customer))
    /\ TicketLoopStep
    /\ UNCHANGED <<churnVars, storeVars, genVars, usageVars, ticketVars, rngVars, raised, wfVars, parseVars>>

\* Lines 342-382: the ticket is created; random.randint(1, days) raises on an
\* empty range
TicketCreate ==
    /\ pc = "ticket_loop"
    /\ loop_left > 0
    /\ LET customer == ticket_customer
           days == ticket_days_since_signup(customer)
       IN  /\ ~ticket_skipped(days)
           /\ IF days < 1
              THEN /\ raised' = "ValueError"
                   /\ pc' = "raised"
                   /\ UNCHANGED <<ticketVars, loopVars>>
              ELSE /\ \E priority \in WeightedChoice(priorities, priority_weights),
                         status \in WeightedChoice(statuses, status_weights),
                         r_hours \in RawEnds :
                        /\ status = "pending" => r_hours = 0
                        /\ support_tickets' = Append(support_tickets,
                              NewTicket(customer, ticket_counter, days, RawTop, 0,
                                        priority, status, 0, r_hours, 0))
                   /\ ticket_counter' = ticket_counter + 1
                   /\ TicketLoopStep
                   /\ UNCHANGED <<customers_with_tickets, raised>>
    /\ UNCHANGED <<churnVars, storeVars, genVars, usageVars, rngVars, wfVars, parseVars>>

\* Line 385
TicketsReturn ==
    /\ pc = "tickets_customer_loop"
    /\ cust_idx >= Len(customers_with_tickets)
    /\ pc' = "tickets_returned"
    /\ UNCHANGED <<churnVars, storeVars, genVars, usageVars, ticketVars, loopVars, rngVars, raised, wfVars, parseVars>>

NextTickets ==
    TicketsSample \/ TicketsNextCustomer \/ TicketSkip \/ TicketCreate \/ TicketsReturn

SpecTickets == InitTickets /\ [][NextTickets]_vars

\* generate_usage_events or generate_support_tickets, called on a customer list
InitEvents == InitUsage \/ InitTickets
NextEvents == NextUsage \/ NextTickets
SpecEvents == InitEvents /\ [][NextEvents]_vars

-----------------------------------------------------------------------------
(* generate_churn_events *)

churn_reasons == <<"pricing_too_high", "poor_performance", "missing_features",
                   "competitor_switch", "business_closure", "poor_support",
                   "technical_issues", "ease_of_use", "integration_problems">>

historical_reason_weights == <<15, 12, 15, 20, 8, 10, 8, 7, 5>>
recent_reason_weights == <<35, 25, 10, 15, 3, 5, 4, 2, 1>>

\* np.random.choice(churn_reasons, p=weights), explored at the first and the last
\* reason of positive weight
ReasonsExplored(weights) ==
    LET all == WeightedChoice(churn_reasons, weights)
    IN  {churn_reasons[1], churn_reasons[Len(churn_reasons)]} \cap all

\* The split that takes every customer as historical
historical_customers_all(customers) == customers

\* Lines 407-415: the customers that signed up before the recency cutoff
historical_customers(customers) ==
    SelectSeq(customers, LAMBDA c : strptime(c.signup_date) < RECENT_CUTOFF)

recent_customers(customers) ==
    SelectSeq(customers, LAMBDA c : ~(strptime(c.signup_date) < RECENT_CUTOFF))

\* Line 421: int(len(historical_customers) * 0.03)
historical_churn_count(historical) == (Len(historical) * 3) \div 100

\* The recent sample drawn from all historical customers
eligible_with_churned(historical, churned) == historical

\* Line 451: [c for c in historical_customers if c not in historical_churned]
eligible_for_recent_churn(historical, churned) ==
    SelectSeq(historical, LAMBDA c : \A i \in 1..Len(churned) : churned[i] # c)

\* The recent spike at the historical rate
recent_churn_count_3_percent(eligible) == (Len(eligible) * 3) \div 100

\* Line 453: int(len(eligible_for_recent_churn) * 0.05)
recent_churn_count(eligible) == (Len(eligible) * 5) \div 100

\* Line 428
max_days(customer) == RECENT_CUTOFF - strptime(customer.signup_date)

\* Line 429: the sampled customer gets no churn event
churn_skipped(customer) == max_days(customer) <= MIN_TENURE

\* The lower bound without the floor of MIN_TENURE days
min_days_quarter(customer) == max_days(customer) \div 4

\* Line 432
min_days(customer) == Max(MIN_TENURE, max_days(customer) \div 4)

\* The id padded as the customer ids are, to six digits
ChurnIdSixDigits(n) == "CHN_" \o ZeroPad(n, 6)

\* Line 439: f"CHN_{churn_counter:08d}"
ChurnId(n) == "CHN_" \o ZeroPad(n, 8)

\* Lines 433-446
HistoricalChurnEvent(customer, n, r_days, reason) ==
    LET signup_date == strptime(customer.signup_date)
        churn_days == randint(min_days(customer), max_days(customer), r_days)
    IN  [churn_id              |-> ChurnId(n),
         customer_id           |-> customer.customer_id,
         churn_date            |-> strftime(signup_date + churn_days),
         churn_reason          |-> reason,
         days_since_signup     |-> churn_days,
         final_plan_type       |-> customer.plan_type,
         final_monthly_revenue |-> customer.monthly_revenue]

\* The recent event dated from the signup date, as the historical one is
RecentChurnEventFromSignup(customer, n, r_days, reason) ==
    LET signup_date == strptime(customer.signup_date)
        churn_date == signup_date + randint(0, END_DAY - RECENT_CUTOFF, r_days)
    IN  [churn_id              |-> ChurnId(n),
         customer_id           |-> customer.customer_id,
         churn_date            |-> strftime(churn_date),
         churn_reason          |-> reason,
         days_since_signup     |-> churn_date - signup_date,
         final_plan_type       |-> customer.plan_type,
         final_monthly_revenue |-> customer.monthly_revenue]

\* Lines 461-478
RecentChurnEvent(customer, n, r_days, reason) ==
    LET signup_date == strptime(customer.signup_date)
        churn_date == RECENT_CUTOFF + randint(0, END_DAY - RECENT_CUTOFF, r_days)
    IN  [churn_id              |-> ChurnId(n),
         customer_id           |-> customer.customer_id,
         churn_date            |-> strftime(churn_date),
         churn_reason          |-> reason,
         days_since_signup     |-> churn_date - signup_date,
         final_plan_type       |-> customer.plan_type,
         final_monthly_revenue |-> customer.monthly_revenue]

\* insert_customers_data, lines 494-499: the row of a customer
CustomerRow(customer) == customer

\* The tenures at the cutoff of the edge customers: one day (the last signup day
\* of a historical customer), MIN_TENURE days (both skipped by the historical
\* loop) and one day more (the bounds are MIN_TENURE and MIN_TENURE + 1)
EdgeTenures == {1, MIN_TENURE, MIN_TENURE + 1}

\* The customer lists handed to generate_churn_events: n_edge customers whose
\* tenure at the cutoff is edge_tenure days, then customers of the first day up
\* to n_hist historical ones, then n_recent customers that signed up at the
\* cutoff
ChurnInput(n_hist, n_edge, n_recent, edge_tenure) ==
    [i \in 1..(n_hist + n_recent) |->
        InputCustomer(i - 1,
                      IF i <= n_edge THEN RECENT_CUTOFF - edge_tenure
                      ELSE IF i <= n_hist THEN START_DAY
                      ELSE RECENT_CUTOFF,
                      IF i % 2 = 0 THEN "starter" ELSE "premium")]

\* main, line 44: the customers are generated and inserted
InitChurn ==
    /\ pc = "generate_churn_events"
    /\ \E n_hist \in {0, MaxHistorical - 1, MaxHistorical},
          n_edge \in 0..MaxEdge, n_recent \in (0..MaxRecent) \cup {MaxHistorical},
          edge_tenure \in EdgeTenures :
         /\ n_edge <= n_hist
         /\ n_recent > MaxRecent => n_hist = 0
         /\ customers_data = ChurnInput(n_hist, n_edge, n_recent, edge_tenure)
    /\ num_customers = Len(customers_data)
    /\ CUSTOMERS = [i \in 1..Len(customers_data) |-> CustomerRow(customers_data[i])]
    /\ CHURN_EVENTS = <<>> /\ USAGE_EVENTS = <<>> /\ SUPPORT_TICKETS = <<>> /\ batch_start = 0
    /\ IdleUsage /\ IdleTickets /\ IdleChurn /\ IdleLoop /\ IdleRng
    /\ raised = ""
    /\ IdleWorkflow
    /\ IdleParse

\* Lines 406-422: the split and the historical sample
ChurnSampleHistorical ==
    /\ pc = "generate_churn_events"
    /\ LET historical == historical_customers(customers_data)
       IN  historical_churned' \in sample(historical, historical_churn_count(historical))
    /\ cust_idx' = 0
    /\ pc' = "historical_loop"
    /\ UNCHANGED <<genVars, usageVars, ticketVars, recent_churned, churn_events,
                   churn_counter, storeVars, loop_left, rngVars, raised, wfVars, parseVars>>

\* Lines 424-430: `continue`
ChurnHistoricalSkip ==
    /\ pc = "historical_loop"
    /\ cust_idx < Len(historical_churned)
    /\ churn_skipped(historical_churned[cust_idx + 1])
    /\ cust_idx' = cust_idx + 1
    /\ UNCHANGED <<pc, genVars, usageVars, ticketVars, churnVars, storeVars, loop_left,
                   rngVars, raised, wfVars, parseVars>>

\* Lines 424-448
ChurnHistorical ==
    /\ pc = "historical_loop"
    /\ cust_idx < Len(historical_churned)
    /\ ~churn_skipped(historical_churned[cust_idx + 1])
    /\ \E r \in RawEnds, reason \in ReasonsExplored(historical_reason_weights) :
         churn_events' = Append(churn_events,
            HistoricalChurnEvent(historical_churned[cust_idx + 1], churn_counter, r, reason))
    /\ churn_counter' = churn_counter + 1
    /\ cust_idx' = cust_idx + 1
    /\ UNCHANGED <<pc, genVars, usageVars, ticketVars, historical_churned, recent_churned,
                   storeVars, loop_left, rngVars, raised, wfVars, parseVars>>

\* Lines 450-454: the sample of the recent spike
ChurnSampleRecent ==
    /\ pc = "historical_loop"
    /\ cust_idx >= Len(historical_churned)
    /\ LET eligible == eligible_for_recent_churn(historical_customers(customers_data),
                                                 historical_churned)
       IN  recent_churned' \in
              sample(eligible, Min(recent_churn_count(eligible), Len(eligible)))
    /\ cust_idx' = 0
    /\ pc' = "recent_loop"
    /\ UNCHANGED <<genVars, usageVars, ticketVars, historical_churned, churn_events,
                   churn_counter, storeVars, loop_left, rngVars, raised, wfVars, parseVars>>

\* Lines 456-480
ChurnRecent ==
    /\ pc = "recent_loop"
    /\ cust_idx < Len(recent_churned)
    /\ \E r \in RawEnds, reason \in ReasonsExplored(recent_reason_weights) :
         churn_events' = Append(churn_events,
            RecentChurnEvent(recent_churned[cust_idx + 1], churn_counter, r, reason))
    /\ churn_counter' = churn_counter + 1
    /\ cust_idx' = cust_idx + 1
    /\ UNCHANGED <<pc, genVars, usageVars, ticketVars, historical_churned, recent_churned,
                   storeVars, loop_left, rngVars, raised, wfVars, parseVars>>

\* Line 484, and main line 45: insert_churn_events_data is called
ChurnReturn ==
    /\ pc = "recent_loop"
    /\ cust_idx >= Len(recent_churned)
    /\ pc' = "insert_churn_events_data"
    /\ batch_start' = 0
    /\ UNCHANGED <<genVars, usageVars, ticketVars, churnVars, CUSTOMERS, CHURN_EVENTS,
                   USAGE_EVENTS, SUPPORT_TICKETS, loopVars, rngVars, raised, wfVars,
                   parseVars>>

-----------------------------------------------------------------------------
(* insert_churn_events_data.  A statement sent to the store takes effect as a  *)
(* whole or raises; an exception leaves main.                                  *)

\* Line 569: churn_data[i:i + batch_size]
Batch(data, i, batch_size) == SubSeq(data, i + 1, Min(i + batch_size, Len(data)))

\* Lines 572-577: the row of a churn event
ChurnRow(churn) == churn

\* Line 588: the ids of the UPDATE statement
churned_customer_ids(churn_data) ==
    {churn_data[i].customer_id : i \in 1..Len(churn_data)}

\* The UPDATE that matches no row
UpdateStatusOfNone(table, ids) == table

\* Lines 590-594: UPDATE CUSTOMERS SET status = 'churned' WHERE customer_id IN (ids)
UpdateStatus(table, ids) ==
    [i \in 1..Len(table) |->
        IF table[i].customer_id \in ids
        THEN [table[i] EXCEPT !.status = "churned"]
        ELSE table[i]]

\* Lines 568-585: one batch is inserted
InsertChurnBatch ==
    /\ pc = "insert_churn_events_data"
    /\ batch_start < Len(churn_events)
    /\ LET batch == Batch(churn_events, batch_start, CHURN_BATCH_SIZE)
       IN  CHURN_EVENTS' = CHURN_EVENTS \o [i \in 1..Len(batch) |-> ChurnRow(batch[i])]
    /\ batch_start' = batch_start + CHURN_BATCH_SIZE
    /\ UNCHANGED <<pc, genVars, usageVars, ticketVars, churnVars, CUSTOMERS, USAGE_EVENTS,
                   SUPPORT_TICKETS, loopVars, rngVars, raised, wfVars, parseVars>>

\* Lines 587-597: the status update
UpdateCustomerStatus ==
    /\ pc = "insert_churn_events_data"
    /\ batch_start >= Len(churn_events)
    /\ CUSTOMERS' = UpdateStatus(CUSTOMERS, churned_customer_ids(churn_events))
    /\ pc' = "churn_inserted"
    /\ UNCHANGED <<genVars, usageVars, ticketVars, churnVars, CHURN_EVENTS, USAGE_EVENTS,
                   SUPPORT_TICKETS, batch_start, loopVars, rngVars, raised, wfVars,
                   parseVars>>

\* session.sql(...).collect() raises: the statement has no effect
ChurnStoreError ==
    /\ pc = "insert_churn_events_data"
    /\ raised' = "SnowparkSQLException"
    /\ pc' = "raised"
    /\ UNCHANGED <<genVars, usageVars, ticketVars, churnVars, storeVars, loopVars, rngVars, wfVars, parseVars>>

\* Lines 400-484: generate_churn_events alone
NextGenerateChurn ==
    \/ ChurnSampleHistorical \/ ChurnHistoricalSkip \/ ChurnHistorical
    \/ ChurnSampleRecent \/ ChurnRecent \/ ChurnReturn

\* main, lines 37-44: one of the three generators of records with a counter id
\* is called on a customer list; the usage generator on the last day of the
\* data window, the ticket generator on lists with at most one customer that
\* gets tickets, the churn generator on MaxHistorical historical customers
InitRecords ==
    \/ InitUsage /\ now = END_DAY
    \/ /\ InitTickets
       /\ Cardinality({i \in 1..Len(customers_data) :
                          ~ticket_skipped(ticket_days_since_signup(customers_data[i]))}) <= 1
    \/ InitChurn /\ Len(historical_customers(customers_data)) = MaxHistorical
NextRecords == NextUsage \/ NextTickets \/ NextGenerateChurn
SpecRecords == InitRecords /\ [][NextRecords]_vars

NextChurn ==
    \/ ChurnSampleHistorical \/ ChurnHistoricalSkip \/ ChurnHistorical
    \/ ChurnSampleRecent \/ ChurnRecent \/ ChurnReturn
    \/ InsertChurnBatch \/ UpdateCustomerStatus \/ ChurnStoreError

SpecChurn == InitChurn /\ [][NextChurn]_vars

-----------------------------------------------------------------------------
(* insert_customers_data, insert_usage_events_data and                         *)
(* insert_support_tickets_data.  Each sends one INSERT per batch; the store is *)
(* Snowflake, whose single-quoted literals take '' for a quote and a backslash *)
(* as the start of an escape sequence.                                         *)

\* str.replace for a one-character `old`, on the characters lo..hi of s; the
\* range is rewritten in halves
RECURSIVE replace_range(_, _, _, _, _)
replace_range(s, lo, hi, old, new) ==
    IF lo > hi THEN ""
    ELSE IF lo = hi THEN (IF Ch(s, lo) = old THEN new ELSE Ch(s, lo))
    ELSE LET mid == (lo + hi) \div 2
         IN  replace_range(s, lo, mid, old, new) \o replace_range(s, mid + 1, hi, old, new)

replace(s, old, new) == replace_range(s, 1, Len(s), old, new)

\* The text left as it is
escaped_text_unescaped(ticket_text) == ticket_text

\* Line 542: escaped_text
escaped_text(ticket_text) == replace(ticket_text, "'", "''")

\* Line 549: '{escaped_text}'
text_literal(ticket_text) == "'" \o escaped_text(ticket_text) \o "'"

\* The character an escape sequence stands for
escape_char(c) == IF c = "n" THEN "\n" ELSE IF c = "t" THEN "\t" ELSE c

\* The store reading the character at position p of a literal.  at is "text"
\* inside the literal, "escape" after a backslash, "quote" after a quote that
\* closes the literal unless another quote follows, and "closed" after the
\* literal.  last is the position of the closing quote, 0 while there is none
ReadChar(sql, p, at) ==
    LET c == Ch(sql, p)
    IN  IF at = "closed" THEN [at |-> "closed", value |-> "", last |-> 0]
        ELSE IF at = "escape" THEN [at |-> "text", value |-> escape_char(c), last |-> 0]
        ELSE IF at = "quote"
             THEN IF c = "'" THEN [at |-> "text", value |-> "'", last |-> 0]
                  ELSE [at |-> "closed", value |-> "", last |-> p - 1]
        ELSE IF c = "\\" THEN [at |-> "escape", value |-> "", last |-> 0]
        ELSE IF c = "'" THEN [at |-> "quote", value |-> "", last |-> 0]
        ELSE [at |-> "text", value |-> c, last |-> 0]

\* The store reading the characters lo..hi, entered in state `at`; the range
\* is read in halves, the second entered in the state the first ends in (the
\* halves are bound as values, first the first)
RECURSIVE ReadRange(_, _, _, _)
ReadRange(sql, lo, hi, at) ==
    IF lo > hi THEN [at |-> at, value |-> "", last |-> 0]
    ELSE IF lo = hi THEN ReadChar(sql, lo, at)
    ELSE Bind((lo + hi) \div 2, LAMBDA mid :
         Bind(ReadRange(sql, lo, mid, at), LAMBDA first :
         Bind(ReadRange(sql, mid + 1, hi, first.at), LAMBDA second :
             [at    |-> second.at,
              value |-> first.value \o second.value,
              last  |-> IF first.last # 0 THEN first.last ELSE second.last])))

\* The store reads the literal that opens at position 1 of sql
read_literal(sql) == ReadRange(sql, 2, Len(sql), "text")

\* The position of the quote that closes the literal, 0 when none does
literal_end(sql) ==
    LET read == read_literal(sql)
    IN  IF read.at = "quote" THEN Len(sql) ELSE read.last

\* The string the store reads from the literal
literal_value(sql) == read_literal(sql).value

\* The literal ends at the quote the loader closed it with
well_formed(literal) == literal_end(literal) = Len(literal)

\* Lines 543-544: `value if value else 'NULL'`
null_if_falsy(value) == IF value = None \/ value[1] = 0 THEN None ELSE value

\* Lines 515-520: the row of a usage event
UsageEventRow(event) == event

\* Lines 541-550: the row of a ticket, as the store reads the statement
TicketRow(ticket) ==
    [ticket EXCEPT !.resolution_time_hours = null_if_falsy(@),
                   !.satisfaction_score = null_if_falsy(@),
                   !.ticket_text = literal_value(text_literal(@))]

\* The batch that starts one record late
batch_shifted(data, i, batch_size) == SubSeq(data, i + 2, Min(i + batch_size, Len(data)))

\* Lines 491, 515, 538: data[i:i + batch_size]
batch_of(data, i, batch_size) == Batch(data, i, batch_size)

\* Lines 490-506: one batch of customers is inserted
InsertCustomersBatch ==
    /\ pc = "insert_customers_data"
    /\ batch_start < Len(customers_data)
    /\ LET batch == batch_of(customers_data, batch_start, CUSTOMERS_BATCH_SIZE)
       IN  CUSTOMERS' = CUSTOMERS \o [i \in 1..Len(batch) |-> CustomerRow(batch[i])]
    /\ batch_start' = batch_start + CUSTOMERS_BATCH_SIZE
    /\ UNCHANGED <<pc, genVars, usageVars, ticketVars, churnVars, CHURN_EVENTS, USAGE_EVENTS,
                   SUPPORT_TICKETS, loopVars, rngVars, raised, wfVars, parseVars>>

\* Line 508: insert_customers_data returns
InsertCustomersReturn ==
    /\ pc = "insert_customers_data"
    /\ batch_start >= Len(customers_data)
    /\ pc' = "customers_inserted"
    /\ batch_start' = 0
    /\ UNCHANGED <<genVars, usageVars, ticketVars, churnVars, CUSTOMERS, CHURN_EVENTS,
                   USAGE_EVENTS, SUPPORT_TICKETS, loopVars, rngVars, raised, wfVars,
                   parseVars>>

\* Lines 514-529: one batch of usage events is inserted
InsertUsageBatch ==
    /\ pc = "insert_usage_events_data"
    /\ batch_start < Len(usage_events)
    /\ LET batch == batch_of(usage_events, batch_start, USAGE_BATCH_SIZE)
       IN  USAGE_EVENTS' = USAGE_EVENTS \o [i \in 1..Len(batch) |-> UsageEventRow(batch[i])]
    /\ batch_start' = batch_start + USAGE_BATCH_SIZE
    /\ UNCHANGED <<pc, genVars, usageVars, ticketVars, churnVars, CUSTOMERS, CHURN_EVENTS,
                   SUPPORT_TICKETS, loopVars, rngVars, raised, wfVars, parseVars>>

\* Line 531: insert_usage_events_data returns
InsertUsageReturn ==
    /\ pc = "insert_usage_events_data"
    /\ batch_start >= Len(usage_events)
    /\ pc' = "usage_inserted"
    /\ batch_start' = 0
    /\ UNCHANGED <<genVars, usageVars, ticketVars, churnVars, CUSTOMERS, CHURN_EVENTS,
                   USAGE_EVENTS, SUPPORT_TICKETS, loopVars, rngVars, raised, wfVars,
                   parseVars>>

\* The literals of the batch at batch_start
BatchLiterals ==
    LET batch == batch_of(support_tickets, batch_start, TICKETS_BATCH_SIZE)
    IN  {text_literal(batch[i].ticket_text) : i \in 1..Len(batch)}

\* Lines 537-558: one batch of tickets is inserted
InsertTicketsBatch ==
    /\ pc = "insert_support_tickets_data"
    /\ batch_start < Len(support_tickets)
    /\ \A literal \in BatchLiterals : well_formed(literal)
    /\ LET batch == batch_of(support_tickets, batch_start, TICKETS_BATCH_SIZE)
       IN  SUPPORT_TICKETS' =
               SUPPORT_TICKETS \o [i \in 1..Len(batch) |-> TicketRow(batch[i])]
    /\ batch_start' = batch_start + TICKETS_BATCH_SIZE
    /\ UNCHANGED <<pc, genVars, usageVars, ticketVars, churnVars, CUSTOMERS, CHURN_EVENTS,
                   USAGE_EVENTS, loopVars, rngVars, raised, wfVars, parseVars>>

\* Line 558: a literal of the batch does not end where the loader closed it, so
\* the statement is not the INSERT that was meant; the store rejects it
InsertTicketsRejected ==
    /\ pc = "insert_support_tickets_data"
    /\ batch_start < Len(support_tickets)
    /\ \E literal \in BatchLiterals : ~well_formed(literal)
    /\ raised' = "SnowparkSQLException"
    /\ pc' = "raised"
    /\ UNCHANGED <<genVars, usageVars, ticketVars, churnVars, storeVars, loopVars, rngVars,
                   wfVars, parseVars>>

\* Line 560: insert_support_tickets_data returns
InsertTicketsReturn ==
    /\ pc = "insert_support_tickets_data"
    /\ batch_start >= Len(support_tickets)
    /\ pc' = "tickets_inserted"
    /\ batch_start' = 0
    /\ UNCHANGED <<genVars, usageVars, ticketVars, churnVars, CUSTOMERS, CHURN_EVENTS,
                   USAGE_EVENTS, SUPPORT_TICKETS, loopVars, rngVars, raised, wfVars,
                   parseVars>>

\* The list a loader at pc is called with, <<>> when pc is no loader
LoaderInput ==
    IF pc = "insert_customers_data" THEN customers_data
    ELSE IF pc = "insert_usage_events_data" THEN usage_events
    ELSE IF pc = "insert_support_tickets_data" THEN support_tickets
    ELSE <<>>

\* Lines 506, 529, 558: session.sql(insert_sql).collect() raises, the batch is
\* not inserted
InsertStoreError ==
    /\ batch_start < Len(LoaderInput)
    /\ raised' = "SnowparkSQLException"
    /\ pc' = "raised"
    /\ UNCHANGED <<genVars, usageVars, ticketVars, churnVars, storeVars, loopVars, rngVars,
                   wfVars, parseVars>>

\* The lengths a loader with this batch size is run on
LoadLengths(batch_size) ==
    {0, 1, batch_size - 1, batch_size, batch_size + 1}
        \cup {k * batch_size : k \in 2..MaxBatches}
        \cup {k * batch_size + 1 : k \in 2..MaxBatches}

LoadCustomer(i) == InputCustomer(i - 1, START_DAY, "starter")
LoadCustomers(n) == [i \in 1..n |-> LoadCustomer(i)]
LoadEvents(n) == [i \in 1..n |-> NewUsageEvent(LoadCustomer(1), i, 0, 0, 0, 0, 0)]
LoadTicket(i, text) ==
    [NewTicket(LoadCustomer(1), i, 1, 0, 0, "low", "resolved", 0, 0, 0)
        EXCEPT !.ticket_text = text]
LoadTickets(n) == [i \in 1..n |-> LoadTicket(i, choice(ticket_templates["billing"], 0))]
LoadChurn(n) == [i \in 1..n |-> RecentChurnEvent(LoadCustomer(i), i, 0, "pricing")]

\* Ticket texts: two templates of lines 268-296, and texts with quotes and
\* backslashes
ExploredTexts ==
    {"My payment failed but I'm not sure why. Can you help me resolve this quickly?",
     "I need to downgrade my plan but can't find the option. The current cost is too high for our small team.",
     "", "'", "''", "it's", "'quoted'",
     "C:\\temp", "ends with \\", "\\'", "\\'); DROP TABLE CUSTOMERS; --"}

InitLoad ==
    /\ raised = ""
    /\ num_customers = 0
    /\ events_avg = 0 /\ event_counter = 1 /\ now = END_DAY
    /\ customers_with_tickets = <<>> /\ ticket_counter = 1
    /\ historical_churned = <<>> /\ recent_churned = <<>> /\ churn_counter = 1
    /\ IdleStore /\ IdleLoop /\ IdleRng
    /\ IdleWorkflow
    /\ IdleParse
    /\ \/ /\ pc = "insert_customers_data"
          /\ \E n \in LoadLengths(CUSTOMERS_BATCH_SIZE) : customers_data = LoadCustomers(n)
          /\ usage_events = <<>> /\ support_tickets = <<>> /\ churn_events = <<>>
       \/ /\ pc = "insert_usage_events_data"
          /\ \E n \in LoadLengths(USAGE_BATCH_SIZE) : usage_events = LoadEvents(n)
          /\ customers_data = <<>> /\ support_tickets = <<>> /\ churn_events = <<>>
       \/ /\ pc = "insert_support_tickets_data"
          /\ \/ \E n \in LoadLengths(TICKETS_BATCH_SIZE) : support_tickets = LoadTickets(n)
             \/ \E n \in 1..MaxTexts : \E texts \in [1..n -> ExploredTexts] :
                    support_tickets = [i \in 1..n |-> LoadTicket(i, texts[i])]
          /\ customers_data = <<>> /\ usage_events = <<>> /\ churn_events = <<>>
       \/ /\ pc = "insert_churn_events_data"
          /\ \E n \in LoadLengths(CHURN_BATCH_SIZE) : churn_events = LoadChurn(n)
          /\ customers_data = <<>> /\ usage_events = <<>> /\ support_tickets = <<>>

NextLoad ==
    \/ InsertCustomersBatch \/ InsertCustomersReturn
    \/ InsertUsageBatch \/ InsertUsageReturn
    \/ InsertTicketsBatch \/ InsertTicketsRejected \/ InsertTicketsReturn
    \/ InsertStoreError
    \/ InsertChurnBatch \/ UpdateCustomerStatus \/ ChurnStoreError

SpecLoad == InitLoad /\ [][NextLoad]_vars

-----------------------------------------------------------------------------
(* main.  The generators are taken by the lists they return, here short lists  *)
(* of records; the store calls of create_tables, of the loaders and of         *)
(* validate_data are made one by one and each may raise.                       *)

\* The call returned and main is at its next statement, whatever the call did
returned_or_raised(label) == pc \in {label, "raised"}

\* Lines 31-49: main has no try statement, so its next statement runs only
\* when the call before it returned
returned_to_main(label) == pc = label

\* Lines 62-114: the table the k-th statement of create_tables replaces, "" for
\* the SELECT and the GRANT of lines 58-59
replaced_table(k) ==
    IF k = 3 THEN "CUSTOMERS" ELSE IF k = 4 THEN "USAGE_EVENTS"
    ELSE IF k = 5 THEN "SUPPORT_TICKETS" ELSE IF k = 6 THEN "CHURN_EVENTS" ELSE ""

\* Rows an earlier run of the program left in CUSTOMERS
LeftoverRows == {<<>>, <<CustomerRow(LoadCustomer(1))>>}

InitMain ==
    /\ pc = "create_tables"
    /\ raised = ""
    /\ num_customers = 0 /\ customers_data = <<>>
    /\ IdleUsage /\ IdleTickets /\ IdleChurn
    /\ CUSTOMERS \in LeftoverRows
    /\ CHURN_EVENTS = <<>> /\ USAGE_EVENTS = <<>> /\ SUPPORT_TICKETS = <<>> /\ batch_start = 0
    /\ cust_idx = 0 /\ loop_left = CREATE_STATEMENTS
    /\ IdleRng
    /\ IdleWorkflow
    /\ IdleParse

\* Lines 58-59 and 117-118: one statement of create_tables
CreateTablesStatement ==
    /\ pc = "create_tables"
    /\ loop_left > 0
    /\ LET replaced == replaced_table(CREATE_STATEMENTS - loop_left + 1)
       IN  /\ CUSTOMERS' = IF replaced = "CUSTOMERS" THEN <<>> ELSE CUSTOMERS
           /\ USAGE_EVENTS' = IF replaced = "USAGE_EVENTS" THEN <<>> ELSE USAGE_EVENTS
           /\ SUPPORT_TICKETS' = IF replaced = "SUPPORT_TICKETS" THEN <<>> ELSE SUPPORT_TICKETS
           /\ CHURN_EVENTS' = IF replaced = "CHURN_EVENTS" THEN <<>> ELSE CHURN_EVENTS
    /\ loop_left' = loop_left - 1
    /\ UNCHANGED <<pc, genVars, usageVars, ticketVars, churnVars, batch_start, cust_idx,
                   rngVars, raised, wfVars, parseVars>>

\* Line 119: create_tables returns
CreateTablesReturn ==
    /\ pc = "create_tables"
    /\ loop_left = 0
    /\ pc' = "tables_created"
    /\ UNCHANGED <<genVars, usageVars, ticketVars, churnVars, storeVars, loopVars, rngVars,
                   raised, wfVars, parseVars>>

\* Lines 35-36: generate_customers_data returns a list and insert_customers_data
\* is called with it
MainGenerateCustomers ==
    /\ returned_to_main("tables_created")
    /\ \E n \in 0..MaxMainRecords : customers_data' = LoadCustomers(n)
    /\ num_customers' = Len(customers_data')
    /\ pc' = "insert_customers_data"
    /\ batch_start' = 0
    /\ UNCHANGED <<usageVars, ticketVars, churnVars, CUSTOMERS, CHURN_EVENTS, USAGE_EVENTS,
                   SUPPORT_TICKETS, loopVars, rngVars, raised, wfVars, parseVars>>

\* Lines 38-39: generate_usage_events returns events of the first 2000
\* customers and insert_usage_events_data is called with them
MainGenerateUsage ==
    /\ returned_to_main("customers_inserted")
    /\ LET subset == SubSeq(customers_data, 1, Min(USAGE_SUBSET, Len(customers_data)))
       IN  \E n \in 0..MaxMainRecords :
               /\ n > 0 => subset # <<>>
               /\ usage_events' =
                      [i \in 1..n |-> NewUsageEvent(subset[Len(subset)], i, 0, 0, 0, 0, 0)]
    /\ event_counter' = Len(usage_events') + 1
    /\ pc' = "insert_usage_events_data"
    /\ batch_start' = 0
    /\ UNCHANGED <<genVars, events_avg, now, ticketVars, churnVars, CUSTOMERS, CHURN_EVENTS,
                   USAGE_EVENTS, SUPPORT_TICKETS, loopVars, rngVars, raised, wfVars,
                   parseVars>>

\* Lines 41-42: generate_support_tickets returns tickets and
\* insert_support_tickets_data is called with them
MainGenerateTickets ==
    /\ returned_to_main("usage_inserted")
    /\ \E n \in 0..MaxMainRecords : \E r_text \in 0..1 :
           /\ n > 0 => customers_data # <<>>
           /\ support_tickets' =
                  [i \in 1..n |->
                      NewTicket(customers_data[1], i, 1, 0, 0, "low", "resolved", r_text, 0, 0)]
    /\ ticket_counter' = Len(support_tickets') + 1
    /\ pc' = "insert_support_tickets_data"
    /\ batch_start' = 0
    /\ UNCHANGED <<genVars, usageVars, customers_with_tickets, churnVars, CUSTOMERS,
                   CHURN_EVENTS, USAGE_EVENTS, SUPPORT_TICKETS, loopVars, rngVars, raised,
                   wfVars, parseVars>>

\* Lines 44-45: generate_churn_events returns events, of one customer each, and
\* insert_churn_events_data is called with them
MainGenerateChurn ==
    /\ returned_to_main("tickets_inserted")
    /\ \E n \in 0..Len(customers_data) :
           churn_events' =
               [i \in 1..n |-> HistoricalChurnEvent(customers_data[i], i, 0, "pricing")]
    /\ churn_counter' = Len(churn_events') + 1
    /\ pc' = "insert_churn_events_data"
    /\ batch_start' = 0
    /\ UNCHANGED <<genVars, usageVars, ticketVars, historical_churned, recent_churned,
                   CUSTOMERS, CHURN_EVENTS, USAGE_EVENTS, SUPPORT_TICKETS, loopVars, rngVars,
                   raised, wfVars, parseVars>>

\* Line 49: validate_data is called
MainValidate ==
    /\ returned_to_main("churn_inserted")
    /\ pc' = "validate_data"
    /\ loop_left' = VALIDATE_QUERIES
    /\ UNCHANGED <<genVars, usageVars, ticketVars, churnVars, storeVars, cust_idx, rngVars,
                   raised, wfVars, parseVars>>

\* Lines 606-651: one query of validate_data
ValidateQuery ==
    /\ pc = "validate_data"
    /\ loop_left > 0
    /\ loop_left' = loop_left - 1
    /\ UNCHANGED <<pc, genVars, usageVars, ticketVars, churnVars, storeVars, cust_idx, rngVars,
                   raised, wfVars, parseVars>>

\* Lines 51-52: validate_data returned and main returns
MainReturn ==
    /\ pc = "validate_data"
    /\ loop_left = 0
    /\ pc' = "main_returned"
    /\ UNCHANGED <<genVars, usageVars, ticketVars, churnVars, storeVars, loopVars, rngVars,
                   raised, wfVars, parseVars>>

\* A statement of create_tables or a query of validate_data raises
StatementStoreError ==
    /\ pc \in {"create_tables", "validate_data"}
    /\ loop_left > 0
    /\ raised' = "SnowparkSQLException"
    /\ pc' = "raised"
    /\ UNCHANGED <<genVars, usageVars, ticketVars, churnVars, storeVars, loopVars, rngVars,
                   wfVars, parseVars>>

NextMain ==
    \/ CreateTablesStatement \/ CreateTablesReturn
    \/ MainGenerateCustomers \/ InsertCustomersBatch \/ InsertCustomersReturn
    \/ MainGenerateUsage \/ InsertUsageBatch \/ InsertUsageReturn
    \/ MainGenerateTickets \/ InsertTicketsBatch \/ InsertTicketsReturn
    \/ MainGenerateChurn \/ InsertChurnBatch \/ UpdateCustomerStatus
    \/ MainValidate \/ ValidateQuery \/ MainReturn
    \/ StatementStoreError \/ InsertStoreError \/ ChurnStoreError

SpecMain == InitMain /\ [][NextMain]_vars

-----------------------------------------------------------------------------
(* parse_agent_stream_response (studio_app.py).  json.loads is modelled on the *)
(* JSON texts made of objects with string keys, arrays, strings without         *)
(* escapes, integers, true, false and null, with spaces between the tokens.    *)
(* A Python value is a record: k its type, s its str or n its int, items the   *)
(* pairs of a dict or the elements of a list.                                  *)

PyStr(s) == [k |-> "str", s |-> s, n |-> 0]
PyInt(n) == [k |-> "int", s |-> "", n |-> n]
PyBool(b) == [k |-> "bool", s |-> "", n |-> IF b THEN 1 ELSE 0]
PyNone == [k |-> "NoneType", s |-> "", n |-> 0]
PyDict(items) == [k |-> "dict", s |-> "", n |-> 0, items |-> items]
PyList(items) == [k |-> "list", s |-> "", n |-> 0, items |-> items]

IsDigit(c) == \E d \in 1..10 : Digit[d] = c
DigitOf(c) == (CHOOSE d \in 1..10 : Digit[d] = c) - 1

RECURSIVE SkipSpaces(_, _)
SkipSpaces(s, i) == IF Ch(s, i) = " " THEN SkipSpaces(s, i + 1) ELSE i

\* The position of the quote that closes the string whose text starts at i,
\* 0 when there is none
RECURSIVE ClosingQuote(_, _)
ClosingQuote(s, i) ==
    IF i > Len(s) \/ Ch(s, i) = "\\" \/ Ch(s, i) = "\n" THEN 0
    ELSE IF Ch(s, i) = "\"" THEN i
    ELSE ClosingQuote(s, i + 1)

\* The position after the digits that start at i
RECURSIVE DigitsEnd(_, _)
DigitsEnd(s, i) == IF IsDigit(Ch(s, i)) THEN DigitsEnd(s, i + 1) ELSE i

RECURSIVE DigitsValue(_)
DigitsValue(s) ==
    IF s = "" THEN 0
    ELSE 10 * DigitsValue(SubSeq(s, 1, Len(s) - 1)) + DigitOf(Ch(s, Len(s)))

JsonFail == [ok |-> FALSE, value |-> PyNone, next |-> 0]
JsonOk(value, next) == [ok |-> TRUE, value |-> value, next |-> next]

StartsAt(s, i, word) == i + Len(word) - 1 <= Len(s) /\ SubSeq(s, i, i + Len(word) - 1) = word

\* A scalar that starts at position i
JsonScalar(s, i) ==
    IF Ch(s, i) = "\""
    THEN Bind(ClosingQuote(s, i + 1), LAMBDA j :
             IF j = 0 THEN JsonFail ELSE JsonOk(PyStr(SubSeq(s, i + 1, j - 1)), j + 1))
    ELSE IF StartsAt(s, i, "true") THEN JsonOk(PyBool(TRUE), i + 4)
    ELSE IF StartsAt(s, i, "false") THEN JsonOk(PyBool(FALSE), i + 5)
    ELSE IF StartsAt(s, i, "null") THEN JsonOk(PyNone, i + 4)
    ELSE Bind(IF Ch(s, i) = "-" THEN i + 1 ELSE i, LAMBDA first :
         Bind(DigitsEnd(s, first), LAMBDA j :
             IF j = first \/ (Ch(s, first) = "0" /\ j > first + 1)
                \/ Ch(s, j) \in {".", "e", "E"}
             THEN JsonFail
             ELSE JsonOk(PyInt((IF first = i THEN 1 ELSE -1)
                               * DigitsValue(SubSeq(s, first, j - 1))), j)))

RECURSIVE JsonValue(_, _)

\* The pairs of an object from position i on, after the pairs in items
RECURSIVE JsonPairs(_, _, _)
JsonPairs(s, i, items) ==
    Bind(JsonScalar(s, SkipSpaces(s, i)), LAMBDA key :
    Bind(SkipSpaces(s, key.next), LAMBDA colon :
        IF ~key.ok \/ key.value.k # "str" \/ Ch(s, colon) # ":" THEN JsonFail
        ELSE
    Bind(JsonValue(s, SkipSpaces(s, colon + 1)), LAMBDA value :
    Bind(SkipSpaces(s, value.next), LAMBDA after :
        IF ~value.ok THEN JsonFail
        ELSE IF Ch(s, after) = "}"
             THEN JsonOk(PyDict(Append(items, <<key.value.s, value.value>>)), after + 1)
        ELSE IF Ch(s, after) = ","
             THEN Bind(Append(items, <<key.value.s, value.value>>), LAMBDA more :
                      JsonPairs(s, after + 1, more))
        ELSE JsonFail))))

\* The elements of an array from position i on, after the elements in items
RECURSIVE JsonItems(_, _, _)
JsonItems(s, i, items) ==
    Bind(JsonValue(s, SkipSpaces(s, i)), LAMBDA value :
    Bind(SkipSpaces(s, value.next), LAMBDA after :
        IF ~value.ok THEN JsonFail
        ELSE IF Ch(s, after) = "]"
             THEN JsonOk(PyList(Append(items, value.value)), after + 1)
        ELSE IF Ch(s, after) = ","
             THEN Bind(Append(items, value.value), LAMBDA more :
                      JsonItems(s, after + 1, more))
        ELSE JsonFail))

JsonValue(s, i) ==
    IF Ch(s, i) = "{"
    THEN Bind(SkipSpaces(s, i + 1), LAMBDA j :
             IF Ch(s, j) = "}" THEN JsonOk(PyDict(<<>>), j + 1)
             ELSE JsonPairs(s, i + 1, <<>>))
    ELSE IF Ch(s, i) = "["
    THEN Bind(SkipSpaces(s, i + 1), LAMBDA j :
             IF Ch(s, j) = "]" THEN JsonOk(PyList(<<>>), j + 1)
             ELSE JsonItems(s, i + 1, <<>>))
    ELSE JsonScalar(s, i)

\* json.loads(s); ok is FALSE where it raises JSONDecodeError
json_loads(s) ==
    Bind(JsonValue(s, SkipSpaces(s, 1)), LAMBDA read :
        IF read.ok /\ SkipSpaces(s, read.next) = Len(s) + 1 THEN read ELSE JsonFail)

\* key in d, d.get(key, default): the last pair of the key counts
HasKey(d, key) == \E i \in 1..Len(d.items) : d.items[i][1] = key
Get(d, key, default) ==
    IF HasKey(d, key)
    THEN d.items[CHOOSE i \in 1..Len(d.items) :
                    /\ d.items[i][1] = key
                    /\ \A j \in (i + 1)..Len(d.items) : d.items[j][1] # key][2]
    ELSE default

\* str(value) of a scalar
str(value) ==
    IF value.k = "str" THEN value.s
    ELSE IF value.k = "int"
         THEN IF value.n < 0 THEN "-" \o Decimal(-value.n) ELSE Decimal(value.n)
    ELSE IF value.k = "bool" THEN (IF value.n = 1 THEN "True" ELSE "False")
    ELSE "None"

\* The test that keeps no chunk as raw text
raw_text_kept_never(chunk) == FALSE

\* Line 355: if chunk and not chunk.startswith("{")
raw_text_kept(chunk) == chunk # "" /\ Ch(chunk, 1) # "{"

\* Lines 341-355: the chunk adds a part to response_parts, an error to errors,
\* or nothing
ChunkEffect(chunk) ==
    Bind(json_loads(chunk), LAMBDA loaded :
    Bind(loaded.value, LAMBDA chunk_data :
        IF ~loaded.ok
        THEN IF raw_text_kept(chunk)
             THEN [parts |-> <<PyStr(chunk)>>, errors |-> <<>>]
             ELSE [parts |-> <<>>, errors |-> <<>>]
        ELSE IF chunk_data.k = "dict"
        THEN IF Get(chunk_data, "type", PyNone) = PyStr("text")
             THEN [parts |-> <<Get(chunk_data, "text", PyStr(""))>>, errors |-> <<>>]
             ELSE IF HasKey(chunk_data, "content")
             THEN [parts |-> <<PyStr(str(Get(chunk_data, "content", PyStr(""))))>>,
                   errors |-> <<>>]
             ELSE IF HasKey(chunk_data, "message")
             THEN [parts |-> <<>>,
                   errors |-> <<Get(chunk_data, "message", PyStr("Unknown error"))>>]
             ELSE [parts |-> <<>>, errors |-> <<>>]
        ELSE [parts |-> <<PyStr(str(chunk_data))>>, errors |-> <<>>]))

\* "".join(parts); raises TypeError on a part that is no str
RECURSIVE join(_)
join(parts) == IF parts = <<>> THEN "" ELSE parts[1].s \o join(Tail(parts))

JoinTypeError(parts) ==
    LET i == CHOOSE i \in 1..Len(parts) :
                 parts[i].k # "str" /\ \A j \in 1..(i - 1) : parts[j].k = "str"
    IN  "sequence item " \o Decimal(i - 1) \o ": expected str instance, "
        \o parts[i].k \o " found"

\* The loop that ends at the first chunk that gives an error
RECURSIVE ChunkEffectsUntilError(_)
ChunkEffectsUntilError(chunk_list) ==
    IF chunk_list = <<>> THEN [parts |-> <<>>, errors |-> <<>>]
    ELSE Bind(ChunkEffect(chunk_list[1]), LAMBDA head :
         Bind(IF head.errors # <<>> THEN [parts |-> <<>>, errors |-> <<>>]
              ELSE ChunkEffectsUntilError(Tail(chunk_list)), LAMBDA rest :
             [parts |-> head.parts \o rest.parts, errors |-> head.errors \o rest.errors]))

\* Lines 341-355: the loop `for chunk in chunks`
RECURSIVE ChunkEffects(_)
ChunkEffects(chunk_list) ==
    IF chunk_list = <<>> THEN [parts |-> <<>>, errors |-> <<>>]
    ELSE Bind(ChunkEffect(chunk_list[1]), LAMBDA head :
         Bind(ChunkEffects(Tail(chunk_list)), LAMBDA rest :
             [parts |-> head.parts \o rest.parts, errors |-> head.errors \o rest.errors]))

\* Lines 336-357
parse_agent_stream_response(chunk_list) ==
    Bind(ChunkEffects(chunk_list), LAMBDA effects :
        IF \E i \in 1..Len(effects.parts) : effects.parts[i].k # "str"
        THEN [raised |-> JoinTypeError(effects.parts), response |-> "", errors |-> <<>>]
        ELSE [raised |-> "", response |-> join(effects.parts), errors |-> effects.errors])

\* The chunks explored
ExploredChunks ==
    {"{\"type\": \"text\", \"text\": \"alpha\"}",
     "{\"content\": \"beta\"}",
     "{\"content\": 7}",
     "{\"message\": \"rate limit\"}",
     "{\"content\": \"beta\", \"message\": \"quota\"}",
     "{\"type\": \"text\", \"text\": 5}",
     "{\"type\": \"status\"}",
     "{\"message\": \"rate",
     "plain text",
     "",
     "42",
     "\"quoted\"",
     "null"}

RECURSIVE ChunkLists(_)
ChunkLists(n) ==
    IF n = 0 THEN {<<>>}
    ELSE LET shorter == ChunkLists(n - 1)
         IN  shorter \cup {Append(l, c) : l \in {x \in shorter : Len(x) = n - 1},
                                          c \in ExploredChunks}

InitParse ==
    /\ pc = "parse_agent_stream_response"
    /\ chunks \in ChunkLists(MaxChunks)
    /\ parsed = <<>>
    /\ num_customers = 0 /\ customers_data = <<>>
    /\ IdleUsage /\ IdleTickets /\ IdleChurn /\ IdleStore /\ IdleLoop /\ IdleRng
    /\ raised = ""
    /\ IdleWorkflow

\* Lines 336-357: the call returns or raises
ParseAgentStreamResponse ==
    /\ pc = "parse_agent_stream_response"
    /\ parsed' = <<parse_agent_stream_response(chunks)>>
    /\ raised' = IF parsed'[1].raised # "" THEN "TypeError" ELSE ""
    /\ pc' = IF parsed'[1].raised # "" THEN "raised" ELSE "parse_returned"
    /\ UNCHANGED <<chunks, genVars, usageVars, ticketVars, churnVars, storeVars, loopVars,
                   rngVars, wfVars>>

NextParse == ParseAgentStreamResponse

SpecParse == InitParse /\ [][NextParse]_vars

-----------------------------------------------------------------------------
(* The supervisor workflow (studio_app.py) *)

AGENT_NAMES == <<"CONTENT_AGENT", "DATA_ANALYST_AGENT", "RESEARCH_AGENT">>

IsAgentName(name) == \E i \in 1..Len(AGENT_NAMES) : AGENT_NAMES[i] = name

\* The agent names the planning model is explored at: the three agents and a
\* name that is no node of the graph
PlanAgents == {"CONTENT_AGENT", "DATA_ANALYST_AGENT", "RESEARCH_AGENT", "SALES_AGENT"}

\* The plans the planning model is explored at
Plans ==
    UNION {{[plan_summary |-> "summary",
             total_steps  |-> n,
             steps        |-> [i \in 1..n |->
                                 [step_number |-> i, agent |-> agents[i],
                                  purpose |-> "purpose"]]] :
            agents \in [1..n -> PlanAgents]} : n \in 0..MaxSteps}

\* The fallback plan without a step
fallback_plan_no_step ==
    [plan_summary |-> "Direct query routing", total_steps |-> 0, steps |-> <<>>]

\* Lines 419-423
fallback_plan ==
    [plan_summary |-> "Direct query routing",
     total_steps  |-> 1,
     steps        |-> <<[step_number |-> 1, agent |-> "CONTENT_AGENT",
                         purpose |-> "Handle query"]>>]

\* The queries, the agent outputs and the exception texts explored
Queries == {"", "Why do customers churn?"}
AgentTexts == {"alpha", "beta"}
AgentErrors == {"timeout"}

\* The streams of chunks the two streaming agents are explored at
StreamedChunks ==
    {<<"{\"type\": \"text\", \"text\": \"alpha\"}">>,
     <<"{\"content\": \"beta\"}">>,
     <<"{\"type\": \"text\", \"text\": \"alpha\"}", "{\"message\": \"rate limit\"}">>,
     <<"{\"message\": \"rate limit\"}", "{\"content\": \"beta\"}">>,
     <<"{\"type\": \"text\", \"text\": 5}">>}

\* Lines 538-542, 593-597: what parse_agent_stream_response gives on the streams
StreamedOutcomes == {parse_agent_stream_response(streamed) : streamed \in StreamedChunks}
Answers == {"answer"}

HumanMessage(content) == [type |-> "human", name |-> "", content |-> content]
AIMessage(content, name) == [type |-> "ai", name |-> name, content |-> content]

\* Lines 214-236
RECURSIVE get_latest_human_message(_)
get_latest_human_message(msgs) ==
    IF msgs = <<>> THEN ""
    ELSE IF msgs[Len(msgs)].type = "human" THEN msgs[Len(msgs)].content
    ELSE get_latest_human_message(SubSeq(msgs, 1, Len(msgs) - 1))

\* The test that finds no plan in any state
has_plan_never == FALSE

\* Lines 239-241
has_plan == plan # None /\ planning_complete

\* Lines 244-252
get_current_step ==
    IF plan # None /\ current_step < Len(plan[1].steps)
    THEN Some(plan[1].steps[current_step + 1])
    ELSE None

\* The plan taken as complete one step early
is_plan_complete_early ==
    IF plan # None THEN current_step + 1 >= Len(plan[1].steps) ELSE TRUE

\* Lines 255-261
is_plan_complete ==
    IF plan # None THEN current_step >= Len(plan[1].steps) ELSE TRUE

\* A dict in insertion order: d[key] = value
DictHas(d, key) == \E i \in 1..Len(d) : d[i][1] = key
DictGet(d, key) == d[CHOOSE i \in 1..Len(d) : d[i][1] = key][2]
DictSet(d, key, value) ==
    IF DictHas(d, key)
    THEN [i \in 1..Len(d) |-> IF d[i][1] = key THEN <<key, value>> ELSE d[i]]
    ELSE Append(d, <<key, value>>)

\* Lines 269-275: the outputs read from the messages of the agents
RECURSIVE outputs_from_messages(_)
outputs_from_messages(msgs) ==
    IF msgs = <<>> THEN <<>>
    ELSE LET before == outputs_from_messages(SubSeq(msgs, 1, Len(msgs) - 1))
             msg == msgs[Len(msgs)]
         IN  IF IsAgentName(msg.name) THEN DictSet(before, msg.name, msg.content)
             ELSE before

\* Lines 264-275
get_all_agent_outputs ==
    IF agent_outputs # <<>> THEN agent_outputs ELSE outputs_from_messages(messages)

\* output[:limit] + mark when the output is longer than limit
Truncated(output, limit, mark) ==
    IF Len(output) > limit THEN SubSeq(output, 1, limit) \o mark ELSE output

\* Lines 303-321: one entry for each step whose agent has an output; the empty
\* list stands for "No agent outputs available."
RECURSIVE format_agent_outputs_for_synthesis(_, _)
format_agent_outputs_for_synthesis(outputs, steps) ==
    IF steps = <<>> THEN <<>>
    ELSE LET step == steps[1]
             rest == format_agent_outputs_for_synthesis(outputs, Tail(steps))
         IN  IF DictHas(outputs, step.agent)
             THEN <<[agent       |-> step.agent,
                     step_number |-> step.step_number,
                     purpose     |-> step.purpose,
                     results     |-> Truncated(DictGet(outputs, step.agent),
                                               SYNTHESIS_LIMIT, "\n... [truncated]")]>>
                  \o rest
             ELSE rest

\* Line 474: "\n\n".join(f"**{k}**:\n{v[:2000]}" ...)
RECURSIVE raw_outputs(_)
raw_outputs(outputs) ==
    IF outputs = <<>> THEN ""
    ELSE "**" \o outputs[1][1] \o "**:\n" \o SubSeq(outputs[1][2], 1,
             Min(Len(outputs[1][2]), RAW_LIMIT))
         \o (IF Len(outputs) > 1 THEN "\n\n" ELSE "") \o raw_outputs(Tail(outputs))

InitWorkflow ==
    /\ node = "supervisor"
    /\ \E q \in Queries : messages = <<HumanMessage(q)>>
    /\ plan = None
    /\ current_step = 0
    /\ agent_outputs = <<>>
    /\ execution_errors = <<>>
    /\ planning_complete = FALSE
    /\ synthesis_input = None
    /\ model_calls = 0
    /\ supervisor_runs = 0
    /\ planning_response = None
    /\ pc = "workflow"
    /\ num_customers = 0 /\ customers_data = <<>>
    /\ IdleUsage /\ IdleTickets /\ IdleChurn /\ IdleStore /\ IdleLoop /\ IdleRng
    /\ raised = ""
    /\ IdleParse

\* Lines 370-380: no query
SupervisorNoQuery ==
    /\ node = "supervisor"
    /\ ~has_plan
    /\ get_latest_human_message(messages) = ""
    /\ plan' = Some([plan_summary |-> "No query", total_steps |-> 0, steps |-> <<>>])
    /\ planning_complete' = TRUE
    /\ node' = "__end__"
    /\ UNCHANGED <<messages, current_step, agent_outputs, execution_errors,
                   synthesis_input, model_calls, supervisor_runs, planning_response,
                   dataVars, parseVars>>

\* Line 403-404
first_agent(new_plan) ==
    IF new_plan.steps # <<>> THEN new_plan.steps[1].agent ELSE "CONTENT_AGENT"

\* str.find and str.rfind of one character: the 0-based position, -1 when absent
find(s, c) ==
    IF \E i \in 1..Len(s) : Ch(s, i) = c
    THEN (CHOOSE i \in 1..Len(s) : Ch(s, i) = c /\ \A j \in 1..(i - 1) : Ch(s, j) # c) - 1
    ELSE -1
rfind(s, c) ==
    IF \E i \in 1..Len(s) : Ch(s, i) = c
    THEN (CHOOSE i \in 1..Len(s) : Ch(s, i) = c /\ \A j \in (i + 1)..Len(s) : Ch(s, j) # c) - 1
    ELSE -1

\* Lines 386-392: json.loads(content[start:end]); ok is FALSE where the code
\* raises ValueError or json.loads raises
planning_json(content) ==
    IF find(content, "{") # -1 /\ find(content, "}") # -1
    THEN json_loads(SubSeq(content, find(content, "{") + 1, rfind(content, "}") + 1))
    ELSE JsonFail

\* Lines 399-404: the loop over plan.get("steps", []) and first_step.get run
\* without an exception: the steps are absent or a list of dicts
steps_usable(loaded) ==
    HasKey(loaded, "steps") =>
        LET steps == Get(loaded, "steps", PyList(<<>>))
        IN  steps.k = "list" /\ \A i \in 1..Len(steps.items) : steps.items[i].k = "dict"

\* The plan dict as the record the supervisor's helpers read
PlanOf(loaded) ==
    LET steps == Get(loaded, "steps", PyList(<<>>)).items
    IN  [plan_summary |-> Get(loaded, "plan_summary", PyStr("")).s,
         total_steps  |-> Get(loaded, "total_steps", PyInt(Len(steps))).n,
         steps        |-> [i \in 1..Len(steps) |->
                              [step_number |-> Get(steps[i], "step_number", PyNone).n,
                               agent       |-> Get(steps[i], "agent", PyNone).s,
                               purpose     |-> Get(steps[i], "purpose", PyStr("")).s]]]

\* The JSON text of a step and of a plan
StepText(step) ==
    "{\"step_number\": " \o Decimal(step.step_number) \o ", \"agent\": \"" \o step.agent
    \o "\", \"purpose\": \"" \o step.purpose \o "\"}"

RECURSIVE StepTexts(_)
StepTexts(steps) ==
    IF steps = <<>> THEN ""
    ELSE StepText(steps[1]) \o (IF Len(steps) > 1 THEN ", " ELSE "") \o StepTexts(Tail(steps))

PlanText(p) ==
    "{\"plan_summary\": \"" \o p.plan_summary \o "\", \"total_steps\": "
    \o Decimal(p.total_steps) \o ", \"steps\": [" \o StepTexts(p.steps) \o "]}"

\* The contents the planning model is explored at: the text of every plan of
\* Plans, a plan inside prose and without steps, and contents the code cannot
\* read a plan from
PlanningContents ==
    {PlanText(p) : p \in Plans}
        \cup {"Here is the plan: {\"plan_summary\": \"summary\", \"total_steps\": 0} Done.",
              "I cannot plan this.",
              "{\"plan_summary\": \"summary\"",
              "} {",
              "Plan {draft}: {\"plan_summary\": \"summary\"}",
              "{\"plan_summary\": \"summary\", \"steps\": \"none\"}"}

\* Lines 383-384: planning_chain.invoke raises or returns a response
PlanningCalls ==
    {[raised |-> TRUE, content |-> ""]}
        \cup {[raised |-> FALSE, content |-> c] : c \in PlanningContents}

\* Lines 382-404, 417: the plan the try block reaches line 406 with; failed
\* where the except clause is entered
planning_result(call) ==
    IF call.raised THEN [failed |-> TRUE, json_ok |-> FALSE, plan |-> fallback_plan]
    ELSE Bind(planning_json(call.content), LAMBDA loaded :
             IF ~loaded.ok
             THEN [failed |-> TRUE, json_ok |-> FALSE, plan |-> fallback_plan]
             ELSE IF ~steps_usable(loaded.value)
             THEN [failed |-> TRUE, json_ok |-> TRUE, plan |-> fallback_plan]
             ELSE [failed |-> FALSE, json_ok |-> TRUE, plan |-> PlanOf(loaded.value)])

PlanningOutcomes == {[call |-> call, result |-> planning_result(call)] : call \in PlanningCalls}

\* Lines 382-415: the planning model returns a plan
SupervisorPlan ==
    /\ node = "supervisor"
    /\ ~has_plan
    /\ get_latest_human_message(messages) # ""
    /\ \E outcome \in PlanningOutcomes :
         /\ ~outcome.result.failed
         /\ planning_response' = Some(outcome.call)
         /\ plan' = Some(outcome.result.plan)
         /\ node' = first_agent(outcome.result.plan)
    /\ current_step' = 0
    /\ planning_complete' = TRUE
    /\ agent_outputs' = <<>>
    /\ execution_errors' = <<>>
    /\ model_calls' = model_calls + 1
    /\ UNCHANGED <<messages, synthesis_input, supervisor_runs, dataVars, parseVars>>

\* Lines 382-392, 417-433: the planning call raises, its content holds no JSON
\* object the code can read, or the steps of the plan are no list of dicts
SupervisorPlanFallback ==
    /\ node = "supervisor"
    /\ ~has_plan
    /\ get_latest_human_message(messages) # ""
    /\ \E outcome \in PlanningOutcomes :
         /\ outcome.result.failed
         /\ planning_response' = Some(outcome.call)
    /\ plan' = Some(fallback_plan)
    /\ node' = "CONTENT_AGENT"
    /\ current_step' = 0
    /\ planning_complete' = TRUE
    /\ agent_outputs' = <<>>
    /\ execution_errors' = <<>>
    /\ model_calls' = model_calls + 1
    /\ UNCHANGED <<messages, synthesis_input, supervisor_runs, dataVars, parseVars>>

\* The routing that goes to the agent of the first step at every step
routed_agent_of_first_step ==
    IF plan # <<>> /\ current_step < Len(plan[1].steps)
       /\ IsAgentName(plan[1].steps[1].agent)
    THEN <<plan[1].steps[1].agent>>
    ELSE <<>>

\* Lines 436-440: the agent the routing mode goes to, None when it falls through
routed_agent ==
    IF ~is_plan_complete /\ get_current_step # None
       /\ IsAgentName(get_current_step[1].agent)
    THEN Some(get_current_step[1].agent)
    ELSE None

\* Lines 435-442
SupervisorRoute ==
    /\ node = "supervisor"
    /\ has_plan
    /\ routed_agent # None
    /\ node' = routed_agent[1]
    /\ supervisor_runs' = supervisor_runs + 1
    /\ UNCHANGED <<stateVars, synthesis_input, model_calls, planning_response, dataVars,
                   parseVars>>

\* Lines 452-462: the arguments of synthesis_chain.invoke
SynthesisInput ==
    [question      |-> get_latest_human_message(messages),
     plan_summary  |-> plan[1].plan_summary,
     agent_outputs |-> format_agent_outputs_for_synthesis(get_all_agent_outputs,
                                                          plan[1].steps),
     notes         |-> Len(execution_errors)]

\* Lines 444-470: synthesis
SupervisorSynthesis ==
    /\ node = "supervisor"
    /\ has_plan
    /\ routed_agent = None
    /\ synthesis_input' = Some(SynthesisInput)
    /\ model_calls' = model_calls + 1
    /\ supervisor_runs' = supervisor_runs + 1
    /\ \E content \in Answers :
         messages' = Append(messages, AIMessage(content, "supervisor"))
    /\ node' = "__end__"
    /\ UNCHANGED <<plan, current_step, agent_outputs, execution_errors,
                   planning_complete, planning_response, dataVars, parseVars>>

\* Lines 444-462, 472-478: the synthesis call raises
SupervisorSynthesisError ==
    /\ node = "supervisor"
    /\ has_plan
    /\ routed_agent = None
    /\ synthesis_input' = Some(SynthesisInput)
    /\ model_calls' = model_calls + 1
    /\ supervisor_runs' = supervisor_runs + 1
    /\ messages' = Append(messages,
          AIMessage("Analysis:\n\n" \o raw_outputs(get_all_agent_outputs), "supervisor"))
    /\ node' = "__end__"
    /\ UNCHANGED <<plan, current_step, agent_outputs, execution_errors,
                   planning_complete, planning_response, dataVars, parseVars>>

\* The step counter left where it is
next_step_same(step) == step

\* The step counter moved past the next step
next_step_two(step) == step + 2

\* Lines 504, 518, 559, 573, 614, 628: state.get("current_step", 0) + 1
next_step(step) == step + 1

\* The update of an agent node whose call returned (lines 498-507, 552-562)
AgentReturned(agent, response_content, errors) ==
    /\ messages' = Append(messages, AIMessage(response_content, agent))
    /\ current_step' = next_step(current_step)
    /\ agent_outputs' = DictSet(agent_outputs, agent, response_content)
    /\ execution_errors' = errors
    /\ node' = "supervisor"
    /\ UNCHANGED <<plan, planning_complete, synthesis_input, model_calls, supervisor_runs,
                   planning_response, dataVars, parseVars>>

\* The errors without the earlier ones
errors_only_latest(errors, agent, e) == <<agent \o " error: " \o e>>

\* The errors of the state after the call raised (lines 510-512, 565-567)
errors_after_raise(errors, agent, e) == Append(errors, agent \o " error: " \o e)

\* The update of an agent node whose call raised (lines 509-522, 564-577)
AgentRaised(agent, e) ==
    /\ messages' = Append(messages, AIMessage("Error: " \o e, agent))
    /\ current_step' = next_step(current_step)
    /\ agent_outputs' = agent_outputs
    /\ execution_errors' = errors_after_raise(execution_errors, agent, e)
    /\ node' = "supervisor"
    /\ UNCHANGED <<plan, planning_complete, synthesis_input, model_calls, supervisor_runs,
                   planning_response, dataVars, parseVars>>

\* Lines 544-548: list(set(stream_errors))[:3], each with the prefix of the node
RECURSIVE Orders(_)
Orders(S) ==
    IF S = {} THEN {<<>>}
    ELSE UNION {{<<e>> \o rest : rest \in Orders(S \ {e})} : e \in S}

stream_error_notes(prefix, stream_errors) ==
    {[i \in 1..Min(Len(order), STREAM_ERRORS_KEPT) |-> prefix \o ": " \o str(order[i])] :
        order \in Orders({stream_errors[i] : i \in 1..Len(stream_errors)})}

\* Lines 481-507
ContentAgent ==
    /\ node = "CONTENT_AGENT"
    /\ \E output \in AgentTexts :
         AgentReturned("CONTENT_AGENT", output, execution_errors)

\* Lines 481-492, 509-522
ContentAgentError ==
    /\ node = "CONTENT_AGENT"
    /\ \E e \in AgentErrors : AgentRaised("CONTENT_AGENT", e)

\* Lines 525-562
DataAnalystAgent ==
    /\ node = "DATA_ANALYST_AGENT"
    /\ \E returned \in StreamedOutcomes :
         /\ returned.raised = ""
         /\ \E notes \in stream_error_notes("DATA_ANALYST", returned.errors) :
               AgentReturned("DATA_ANALYST_AGENT", returned.response, execution_errors \o notes)

\* Lines 525-541, 564-577
DataAnalystAgentError ==
    /\ node = "DATA_ANALYST_AGENT"
    /\ \/ \E e \in AgentErrors : AgentRaised("DATA_ANALYST_AGENT", e)
       \/ \E returned \in StreamedOutcomes :
            returned.raised # "" /\ AgentRaised("DATA_ANALYST_AGENT", returned.raised)

\* Lines 580-617
ResearchAgent ==
    /\ node = "RESEARCH_AGENT"
    /\ \E returned \in StreamedOutcomes :
         /\ returned.raised = ""
         /\ \E notes \in stream_error_notes("RESEARCH", returned.errors) :
               AgentReturned("RESEARCH_AGENT", returned.response, execution_errors \o notes)

\* Lines 580-596, 619-632
ResearchAgentError ==
    /\ node = "RESEARCH_AGENT"
    /\ \/ \E e \in AgentErrors : AgentRaised("RESEARCH_AGENT", e)
       \/ \E returned \in StreamedOutcomes :
            returned.raised # "" /\ AgentRaised("RESEARCH_AGENT", returned.raised)

\* Lines 640-652: the nodes of the graph
GraphNodes == {"supervisor"} \cup {AGENT_NAMES[i] : i \in 1..Len(AGENT_NAMES)}

\* Where a run is over: at END, or with an exception out of app.invoke
RunOver == {"__end__", "__raised__"}

\* Lines 403-415: the goto of the planning mode names no node of the graph.
\* The graph library runs no node for it: the run ends there, or the library
\* raises
UnknownNode ==
    /\ node \notin GraphNodes \cup RunOver
    /\ node' \in RunOver
    /\ UNCHANGED <<stateVars, synthesis_input, model_calls, supervisor_runs,
                   planning_response, dataVars, parseVars>>

NextWorkflow ==
    \/ UnknownNode
    \/ SupervisorNoQuery \/ SupervisorPlan \/ SupervisorPlanFallback
    \/ SupervisorRoute \/ SupervisorSynthesis \/ SupervisorSynthesisError
    \/ ContentAgent \/ ContentAgentError
    \/ DataAnalystAgent \/ DataAnalystAgentError
    \/ ResearchAgent \/ ResearchAgentError

SpecWorkflow == InitWorkflow /\ [][NextWorkflow]_vars

\* The graph runs the node it is at until it reaches the end (lines 640-652)
SpecWorkflowLive == SpecWorkflow /\ WF_vars(NextWorkflow)

-----------------------------------------------------------------------------
(* Properties *)

Indices(seq) == 1..Len(seq)

\* The customer of the input list with the given id
CustomerById(id) ==
    customers_data[CHOOSE i \in Indices(customers_data) : customers_data[i].customer_id = id]

\* The number written with the decimal digits of the string s
RECURSIVE DecimalValue(_)
DecimalValue(s) ==
    IF Len(s) = 0 THEN 0
    ELSE LET last == SubSeq(s, Len(s), Len(s))
             d == CHOOSE k \in 0..9 : Digit[k + 1] = last
         IN  10 * DecimalValue(SubSeq(s, 1, Len(s) - 1)) + d

IsDigits(s) == \A k \in 1..Len(s) : \E d \in 1..10 : Digit[d] = SubSeq(s, k, k)

\* C1: two runs of generate_usage_events with the same seed and the same
\* parameters return the same usage events, whatever the clock reads at each run
C1_SameSeedSameEvents ==
    (run_no = 2 /\ pc = "usage_returned") => usage_events = prev_run

\* generate_churn_events has returned
ChurnReturned == pc \in {"insert_churn_events_data", "churn_inserted", "raised"}

ChurnedIds == {churn_events[i].customer_id : i \in Indices(churn_events)}

C3_AfterUpdate ==
    pc = "churn_inserted" =>
        \A i \in Indices(CUSTOMERS) :
            CUSTOMERS[i].status =
                (IF CUSTOMERS[i].customer_id \in ChurnedIds THEN "churned" ELSE "active")

C3_NoRevert ==
    /\ Len(CUSTOMERS') = Len(CUSTOMERS)
    /\ \A i \in Indices(CUSTOMERS) :
          CUSTOMERS[i].status = "churned" => CUSTOMERS'[i].status = "churned"

\* C3: once the status update is done, the stored customers named by a churn
\* event are 'churned' and all others 'active', and no step takes a stored
\* customer from 'churned' back to another status
C3_StatusFollowsChurn == [](C3_AfterUpdate) /\ [][C3_NoRevert]_vars

C3_UpdateDone ==
    /\ pc = "churn_inserted"
    /\ \E i, j \in Indices(CUSTOMERS) :
          CUSTOMERS[i].status = "churned" /\ CUSTOMERS[j].status = "active"

\* H: the customers that signed up before 2024-07-01
HistoricalCount ==
    Cardinality({i \in Indices(customers_data) :
                    strptime(customers_data[i].signup_date) < RECENT_CUTOFF})

\* S: the sampled historical customers with at most 30 days from signup to 2024-07-01
ShortTenureSampled ==
    Cardinality({i \in Indices(historical_churned) :
                    RECENT_CUTOFF - strptime(historical_churned[i].signup_date) <= 30})

\* C4 as stated: the number of churn events returned is
\* floor(H*0.03) + floor((H - floor(H*0.03))*0.05)
C4_ChurnCountAsStated ==
    ChurnReturned =>
        Len(churn_events) =
            (HistoricalCount * 3) \div 100
            + ((HistoricalCount - (HistoricalCount * 3) \div 100) * 5) \div 100

\* C4 amended: the number of churn events returned is
\* floor(H*0.03) - S + floor((H - floor(H*0.03))*0.05), where S counts the sampled
\* historical customers that signed up 30 days or less before 2024-07-01
C4_ChurnCountLessSkipped ==
    ChurnReturned =>
        Len(churn_events) =
            (HistoricalCount * 3) \div 100 - ShortTenureSampled
            + ((HistoricalCount - (HistoricalCount * 3) \div 100) * 5) \div 100

C4_ShortTenureSampled ==
    ChurnReturned /\ ShortTenureSampled = 1 /\ Len(churn_events) = 1

\* C5: every usage event uses a feature of its customer's plan and is dated from
\* the customer's signup date to 2024-10-01
C5_UsageEventInPlanAndWindow ==
    \A i \in Indices(usage_events) :
        LET event == usage_events[i]
            customer == CustomerById(event.customer_id)
        IN  /\ \E k \in Indices(plan_features[customer.plan_type]) :
                  plan_features[customer.plan_type][k] = event.feature_used
            /\ strptime(customer.signup_date) <= strptime(event.event_date)
            /\ strptime(event.event_date) <= END_DAY

C5_EventOnEndDate ==
    /\ pc = "usage_returned"
    /\ now > END_DAY
    /\ \E i \in Indices(usage_events) :
          /\ usage_events[i].event_date = <<2024, 10, 1>>
          /\ CustomerById(usage_events[i].customer_id).plan_type = "starter"

\* C6: a resolved or closed ticket has a resolution time of at least one hour, and
\* a pending ticket has neither a resolution time nor a satisfaction score
C6_ResolutionTimePresence ==
    \A i \in Indices(support_tickets) :
        LET ticket == support_tickets[i]
        IN  /\ ticket.status \in {"resolved", "closed"} =>
                  /\ ticket.resolution_time_hours # None
                  /\ ticket.resolution_time_hours[1] >= 1
            /\ ticket.status = "pending" =>
                  /\ ticket.resolution_time_hours = None
                  /\ ticket.satisfaction_score = None

C6_UrgentResolvedAtLowestJitter ==
    \E i, j \in Indices(support_tickets) :
        /\ support_tickets[i].status = "resolved"
        /\ support_tickets[i].priority = "urgent"
        /\ support_tickets[i].resolution_time_hours = Some(1)
        /\ support_tickets[j].status = "pending"

\* C7: generate_customers_data(N) returns N customers; the i-th has the id CUST_
\* followed by i in six digits, the ids differ, every status is 'active' and every
\* signup date is from 2022-01-01 to 2024-10-01
C7_CustomersGenerated ==
    pc = "customers_returned" =>
        /\ Len(customers_data) = num_customers
        /\ \A i \in Indices(customers_data) :
              LET customer == customers_data[i]
                  id == customer.customer_id
              IN  /\ Len(id) = 11
                  /\ SubSeq(id, 1, 5) = "CUST_"
                  /\ IsDigits(SubSeq(id, 6, 11))
                  /\ DecimalValue(SubSeq(id, 6, 11)) = i
                  /\ customer.status = "active"
                  /\ strptime(customer.signup_date) >= strptime(<<2022, 1, 1>>)
                  /\ strptime(customer.signup_date) <= strptime(<<2024, 10, 1>>)
        /\ \A i, j \in Indices(customers_data) :
              customers_data[i].customer_id = customers_data[j].customer_id => i = j

C7_TwoCustomersReturned ==
    /\ pc = "customers_returned"
    /\ num_customers = MaxCustomers
    /\ customers_data[MaxCustomers].customer_id = CustomerId(MaxCustomers - 1)
    /\ customers_data[1].signup_date = <<2022, 1, 1>>
    /\ customers_data[MaxCustomers].signup_date = <<2024, 10, 1>>

AllRecent ==
    \A i \in Indices(customers_data) :
        strptime(customers_data[i].signup_date) >= RECENT_CUTOFF

\* C8: when every customer signed up on or after 2024-07-01, both samples are
\* empty, no churn event is generated and every stored customer stays 'active'
C8_AllRecentNoChurn ==
    AllRecent =>
        /\ historical_churned = <<>> /\ recent_churned = <<>>
        /\ churn_events = <<>>
        /\ CHURN_EVENTS = <<>>
        /\ \A i \in Indices(CUSTOMERS) : CUSTOMERS[i].status = "active"

C8_AllRecentRunEnded ==
    /\ AllRecent
    /\ Len(customers_data) = MaxHistorical
    /\ Len(CUSTOMERS) = MaxHistorical
    /\ pc \in {"churn_inserted", "raised"}

SignedUpLate(customer) == strptime(customer.signup_date) >= END_DAY

\* The usage events the draws of the stream give the customers from the i-th on,
\* the stream read from position pos
RECURSIVE EventsDue(_, _)
EventsDue(i, pos) ==
    IF i > Len(customers_data) THEN 0
    ELSE LET customer == customers_data[i]
             n == IF SignedUpLate(customer) THEN 0
                  ELSE num_events(events_avg, customer.plan_type, rng_tape[pos + 1])
         IN  n + EventsDue(i + 1, pos + 1 + 4 * n)

\* C9: a customer that signed up on or after 2024-10-01 gets no usage event and
\* no ticket, nothing is raised, and the usage events of the other customers are
\* all generated
C9_LateCustomerSkipped ==
    /\ raised = ""
    /\ \A i \in Indices(usage_events) :
          ~SignedUpLate(CustomerById(usage_events[i].customer_id))
    /\ \A i \in Indices(support_tickets) :
          ~SignedUpLate(CustomerById(support_tickets[i].customer_id))
    /\ pc = "usage_returned" => Len(usage_events) = EventsDue(1, 0)
    /\ pc = "tickets_returned" => cust_idx = Len(customers_with_tickets)

C9_LateCustomerThenEvents ==
    /\ pc = "usage_returned"
    /\ Len(customers_data) = 2
    /\ customers_data[1].signup_date = <<2024, 10, 1>>
    /\ usage_events # <<>>

\* The texts of the exceptions an agent node catches
RaisedTexts ==
    AgentErrors \cup ({returned.raised : returned \in StreamedOutcomes} \ {""})

\* The step of an agent node whose call raised
AgentRaisedStep ==
    /\ IsAgentName(node)
    /\ Len(messages') = Len(messages) + 1
    /\ \E e \in RaisedTexts : messages'[Len(messages')].content = "Error: " \o e

C10_ErrorKept ==
    AgentRaisedStep =>
        /\ node' = "supervisor"
        /\ plan' = plan
        /\ current_step' = current_step + 1
        /\ Len(execution_errors') = Len(execution_errors) + 1
        /\ SubSeq(execution_errors', 1, Len(execution_errors)) = execution_errors
        /\ \E e \in RaisedTexts :
              execution_errors'[Len(execution_errors')] = node \o " error: " \o e

C10_NextStepRouted ==
    (/\ node = "supervisor" /\ has_plan
     /\ current_step < Len(plan[1].steps)
     /\ IsAgentName(plan[1].steps[current_step + 1].agent))
    => node' = plan[1].steps[current_step + 1].agent

C10_ErrorsAtSynthesis ==
    synthesis_input # None =>
        /\ node = "__end__"
        /\ synthesis_input[1].notes = Len(execution_errors)

\* C10: a raise in an agent node adds its error after the earlier ones and goes
\* back to the supervisor, which routes to the next step of the plan as it does
\* without errors, and the synthesis is then reached and is given the number of
\* errors
C10_AgentErrorNotFatal ==
    /\ [][C10_ErrorKept /\ C10_NextStepRouted]_vars
    /\ [](C10_ErrorsAtSynthesis)
    /\ (execution_errors # <<>>) ~> (node = "__end__" /\ synthesis_input # None)

C10_RaiseThenStepThenSynthesis ==
    /\ node = "__end__"
    /\ synthesis_input # None
    /\ Len(plan[1].steps) = 3
    /\ current_step = 3
    /\ Len(execution_errors) = 3
    /\ execution_errors[1] = "DATA_ANALYST: rate limit"
    /\ execution_errors[2] = "CONTENT_AGENT error: timeout"
    /\ Len(agent_outputs) = 2

\* parse_agent_stream_response has been called on chunks
ParseDone == pc \in {"parse_returned", "raised"} /\ parsed # None
ParseReturned == pc = "parse_returned" /\ parsed # None

NotJson(chunk) == ~json_loads(chunk).ok
ChunksBefore(i) == SubSeq(chunks, 1, i - 1)
ChunksAfter(i) == SubSeq(chunks, i + 1, Len(chunks))
ResponseOf(chunk_list) == parse_agent_stream_response(chunk_list).response
ErrorsOf(chunk_list) == parse_agent_stream_response(chunk_list).errors

\* The chunk is a JSON object of type "text" whose text is no string
TextNotStr(chunk) ==
    LET loaded == json_loads(chunk)
    IN  /\ loaded.ok /\ loaded.value.k = "dict"
        /\ Get(loaded.value, "type", PyNone) = PyStr("text")
        /\ Get(loaded.value, "text", PyStr("")).k # "str"

\* C11 as stated: every chunk that is not JSON is in the response text as it is,
\* at its place among the text of the chunks before it and after it
C11_EveryNonJsonChunkKept ==
    ParseReturned =>
        \A i \in Indices(chunks) :
            NotJson(chunks[i]) =>
                parsed[1].response =
                    ResponseOf(ChunksBefore(i)) \o chunks[i] \o ResponseOf(ChunksAfter(i))

\* C11 amended: a chunk that is not JSON is in the response text as it is, at
\* its place, unless it starts with "{", and then it adds nothing to the text;
\* the call raises TypeError, and returns no text, exactly when a JSON object
\* of type "text" carries a text that is no string
C11_NonJsonChunkKeptUnlessBrace ==
    ParseDone =>
        /\ (parsed[1].raised # "") = (\E i \in Indices(chunks) : TextNotStr(chunks[i]))
        /\ parsed[1].raised = "" =>
              \A i \in Indices(chunks) :
                  NotJson(chunks[i]) =>
                      parsed[1].response =
                          ResponseOf(ChunksBefore(i))
                          \o (IF Ch(chunks[i], 1) = "{" THEN "" ELSE chunks[i])
                          \o ResponseOf(ChunksAfter(i))

C11_RawTextAndBraceChunk ==
    /\ ParseReturned
    /\ chunks = <<"{\"content\": \"beta\"}", "plain text", "{\"message\": \"rate">>
    /\ parsed[1].response = "betaplain text"

\* The chunk is a JSON object with the key "message"
CarriesMessage(chunk) ==
    LET loaded == json_loads(chunk)
    IN  loaded.ok /\ loaded.value.k = "dict" /\ HasKey(loaded.value, "message")

\* The chunk is a JSON object with the key "message" that is not of type "text"
\* and has no key "content"
MessageOnly(chunk) ==
    LET loaded == json_loads(chunk)
    IN  /\ CarriesMessage(chunk)
        /\ Get(loaded.value, "type", PyNone) # PyStr("text")
        /\ ~HasKey(loaded.value, "content")

MessagesOf(chunk_list) ==
    [i \in Indices(chunk_list) |->
        Get(json_loads(chunk_list[i]).value, "message", PyStr("Unknown error"))]

\* C12 as stated: the errors returned are the messages of the JSON objects that
\* have the key "message", one for each, in the order of the chunks
C12_EveryMessageCollected ==
    ParseReturned =>
        parsed[1].errors = MessagesOf(SelectSeq(chunks, CarriesMessage))

\* C12 amended: the errors returned are the messages of the JSON objects that
\* have the key "message", are not of type "text" and have no key "content",
\* one for each, in the order of the chunks; such a chunk adds nothing to the
\* text, the chunks after it are parsed as without it, and the call raises
\* with it exactly as it does without it
C12_MessageOnlyChunksCollected ==
    ParseDone =>
        /\ parsed[1].raised = "" =>
              parsed[1].errors = MessagesOf(SelectSeq(chunks, MessageOnly))
        /\ \A i \in Indices(chunks) :
              MessageOnly(chunks[i]) =>
                  LET without == parse_agent_stream_response(
                                     ChunksBefore(i) \o ChunksAfter(i))
                  IN  /\ parsed[1].raised = without.raised
                      /\ parsed[1].response = without.response
                      /\ parsed[1].raised = "" =>
                            parsed[1].errors =
                                ErrorsOf(ChunksBefore(i))
                                \o MessagesOf(<<chunks[i]>>)
                                \o ErrorsOf(ChunksAfter(i))

C12_MessageThenMoreChunks ==
    /\ ParseReturned
    /\ chunks = <<"{\"message\": \"rate limit\"}",
                  "{\"content\": \"beta\", \"message\": \"quota\"}",
                  "{\"message\": \"rate limit\"}">>
    /\ parsed[1].errors = <<PyStr("rate limit"), PyStr("rate limit")>>
    /\ parsed[1].response = "beta"

C13_PlanKept ==
    planning_complete => (planning_complete' /\ plan' = plan)

C13_PlanningNotReentered ==
    planning_complete => plan # None

\* C13: once planning_complete is set, no step changes the plan or clears
\* planning_complete, and the test of the planning branch (no plan yet) stays
\* false, so the planning branch is not entered again
C13_PlanCreatedOnce == [][C13_PlanKept]_vars /\ [](C13_PlanningNotReentered)

C13_PlanKeptOverTwoSteps ==
    /\ node = "supervisor"
    /\ planning_complete
    /\ Len(plan[1].steps) = 3
    /\ current_step = 2
    /\ execution_errors = <<>>

\* The supervisor goes from routing to an agent
RoutingStep == node = "supervisor" /\ has_plan /\ IsAgentName(node')

\* C14: the supervisor model is called at most twice in a run, and a routing
\* step calls no model and goes to the agent of plan.steps[current_step]
C14_NoModelCallToRoute ==
    /\ [](model_calls <= 2)
    /\ [][RoutingStep =>
            /\ model_calls' = model_calls
            /\ current_step < Len(plan[1].steps)
            /\ node' = plan[1].steps[current_step + 1].agent]_vars

C14_PlannedRoutedSynthesized ==
    /\ node = "__end__"
    /\ model_calls = 2
    /\ current_step = 3
    /\ Len(agent_outputs) = 3
    /\ execution_errors = <<>>

\* The rows of `table` are the rows of the first records of `rows`, in order,
\* and were sent in whole batches of `size`
SentInOrder(rows, table, size) ==
    /\ Len(table) <= Len(rows)
    /\ table = SubSeq(rows, 1, Len(table))
    /\ Len(table) = Len(rows) \/ Len(table) % size = 0

\* What each loader has to insert
CustomerRows == [i \in Indices(customers_data) |-> CustomerRow(customers_data[i])]
UsageRows == [i \in Indices(usage_events) |-> UsageEventRow(usage_events[i])]
TicketRows == [i \in Indices(support_tickets) |-> TicketRow(support_tickets[i])]
ChurnRows == [i \in Indices(churn_events) |-> ChurnRow(churn_events[i])]

\* The rows of the churn events, whatever the status update did to the table
LoadedAll ==
    /\ pc = "customers_inserted" => Len(CUSTOMERS) = Len(customers_data)
    /\ pc = "usage_inserted" => Len(USAGE_EVENTS) = Len(usage_events)
    /\ pc = "tickets_inserted" => Len(SUPPORT_TICKETS) = Len(support_tickets)
    /\ pc = "churn_inserted" => Len(CHURN_EVENTS) = Len(churn_events)

LoadedSoFar ==
    /\ pc = "insert_customers_data" => Len(CUSTOMERS) = Min(batch_start, Len(customers_data))
    /\ pc = "insert_usage_events_data" => Len(USAGE_EVENTS) = Min(batch_start, Len(usage_events))
    /\ pc = "insert_support_tickets_data" =>
           Len(SUPPORT_TICKETS) = Min(batch_start, Len(support_tickets))
    /\ pc = "insert_churn_events_data" => Len(CHURN_EVENTS) = Min(batch_start, Len(churn_events))

\* No statement inserts more than a batch, and none removes a row
BatchAtMost(table, table_next, size) ==
    Len(table_next) >= Len(table) /\ Len(table_next) - Len(table) <= size

\* C16: every loader sends the records in input order, in consecutive batches
\* of at most its batch size: the table holds the rows of a prefix of the input
\* made of whole batches, each statement adds at most one batch, and the loader
\* returns with the rows of the whole input, each once
C16_BatchesInInputOrder ==
    /\ [](/\ SentInOrder(CustomerRows, CUSTOMERS, CUSTOMERS_BATCH_SIZE)
          /\ SentInOrder(UsageRows, USAGE_EVENTS, USAGE_BATCH_SIZE)
          /\ SentInOrder(TicketRows, SUPPORT_TICKETS, TICKETS_BATCH_SIZE)
          /\ SentInOrder(ChurnRows, CHURN_EVENTS, CHURN_BATCH_SIZE)
          /\ LoadedSoFar
          /\ LoadedAll)
    /\ [][/\ BatchAtMost(CUSTOMERS, CUSTOMERS', CUSTOMERS_BATCH_SIZE)
          /\ BatchAtMost(USAGE_EVENTS, USAGE_EVENTS', USAGE_BATCH_SIZE)
          /\ BatchAtMost(SUPPORT_TICKETS, SUPPORT_TICKETS', TICKETS_BATCH_SIZE)
          /\ BatchAtMost(CHURN_EVENTS, CHURN_EVENTS', CHURN_BATCH_SIZE)]_vars

\* The ticket loader returned after whole batches only
C16_WholeBatchesLoaded ==
    /\ pc = "tickets_inserted"
    /\ Len(support_tickets) = MaxBatches * TICKETS_BATCH_SIZE
    /\ Len(SUPPORT_TICKETS) = MaxBatches * TICKETS_BATCH_SIZE

\* C17: for every ticket_text the literal insert_support_tickets_data writes
\* ends only at its own closing quote, so no part of the text is read as SQL
\* outside the literal
C17_LiteralEndsAtOwnQuote ==
    \A i \in Indices(support_tickets) :
        LET literal == text_literal(support_tickets[i].ticket_text)
        IN  literal_end(literal) = Len(literal)

\* The records generated and the rows stored
MainData == <<customers_data, usage_events, support_tickets, churn_events,
              CUSTOMERS, USAGE_EVENTS, SUPPORT_TICKETS, CHURN_EVENTS>>

\* C15: a persistence call that fails is fatal: the exception leaves main
\* (main does not return), the failed statement changes nothing and is not sent
\* again, and no generation, insert, update or validation step runs after it
C15_StoreFailureIsFatal ==
    /\ [][raised = ""]_vars
    /\ [][raised' # "" => pc' = "raised" /\ MainData' = MainData /\ batch_start' = batch_start]_vars
    /\ [](raised # "" => pc = "raised")

\* The insert of the usage events failed after the customers were stored
C15_UsageInsertFailed ==
    /\ pc = "raised"
    /\ raised = "SnowparkSQLException"
    /\ CUSTOMERS # <<>>
    /\ usage_events # <<>> /\ USAGE_EVENTS = <<>>
    /\ support_tickets = <<>> /\ churn_events = <<>>

\* The steps of the plan, <<>> before planning
PlanSteps == IF plan # None THEN plan[1].steps ELSE <<>>

\* C18: every run ends after finitely many node executions, for every plan
\* and every outcome of the agent calls, and once the plan is made the
\* supervisor is executed at most (number of plan steps + 1) times
C18_RunTerminates ==
    /\ <>(node \in RunOver)
    /\ [](plan # None => supervisor_runs <= Len(PlanSteps) + 1)

\* A run of a plan of MaxSteps steps ended after an agent call raised
C18_LongPlanRunEnded ==
    /\ node = "__end__"
    /\ Len(PlanSteps) = MaxSteps
    /\ supervisor_runs = MaxSteps
    /\ execution_errors # <<>>
    /\ synthesis_input # None

C20_GotoNamesDeclaredTarget ==
    [][node = "supervisor" => (IsAgentName(node') \/ node' = "__end__")]_vars

\* The positions of the messages named 'supervisor'
SupervisorMessages(msgs) == {i \in Indices(msgs) : msgs[i].name = "supervisor"}

\* The query the run was started with
RunQuery == messages[1].content

\* C21: every run started with a non-empty query ends with exactly one message
\* named 'supervisor', appended in the step that goes to END, also when the
\* synthesis call raises
C21_ExactlyOneAnswer ==
    /\ []((node \in RunOver /\ RunQuery # "") =>
             Cardinality(SupervisorMessages(messages)) = 1)
    /\ [][SupervisorMessages(messages') # SupervisorMessages(messages) =>
             /\ node = "supervisor" /\ node' = "__end__"
             /\ SupervisorMessages(messages') = {Len(messages')}
             /\ Len(messages') = Len(messages) + 1]_vars

\* The planning call of the run raised or its content holds no JSON object
\* lines 386-392 can parse
UnparsedCalls ==
    {call \in PlanningCalls : call.raised \/ ~planning_json(call.content).ok}

PlanningFailed(response) == response # None /\ response[1] \in UnparsedCalls

\* C22: when the planning model call raises or its response holds no parseable
\* JSON object, the planning step installs a plan of one step whose agent is
\* CONTENT_AGENT, sets current_step to 0 and planning_complete to true, empties
\* agent_outputs and execution_errors and goes to CONTENT_AGENT; the run is not
\* aborted: it goes on to the end with an answer of the supervisor.
C22_PlanningFailureFallsBack ==
    /\ [][(planning_response = None /\ PlanningFailed(planning_response')) =>
             /\ node = "supervisor"
             /\ node' = "CONTENT_AGENT"
             /\ plan' # None
             /\ Len(plan'[1].steps) = 1
             /\ plan'[1].steps[1].agent = "CONTENT_AGENT"
             /\ current_step' = 0
             /\ planning_complete' = TRUE
             /\ agent_outputs' = <<>>
             /\ execution_errors' = <<>>]_vars
    /\ [](PlanningFailed(planning_response) => node # "__raised__")
    /\ (PlanningFailed(planning_response) ~>
            (node = "__end__" /\ Cardinality(SupervisorMessages(messages)) = 1))

\* A run whose planning content held no JSON object ended after CONTENT_AGENT
\* ran the one step of the fallback plan
C22_FallbackRunAnswered ==
    /\ planning_response = Some([raised |-> FALSE, content |-> "I cannot plan this."])
    /\ node = "__end__"
    /\ current_step = 1
    /\ plan = Some(fallback_plan)
\* The customer a churn event was made for
ChurnedCustomer(event) ==
    customers_data[CHOOSE j \in Indices(customers_data) :
                       customers_data[j].customer_id = event.customer_id]

\* The events of the historical cohort: those of the customers of the first sample
HistoricalEvents ==
    {i \in Indices(churn_events) :
        \E j \in Indices(historical_churned) :
            historical_churned[j].customer_id = churn_events[i].customer_id}

\* The day numbers of 2024-07-01 and 2024-10-01
CutoffDay == strptime(<<2024, 7, 1>>)
SpikeEndDay == strptime(<<2024, 10, 1>>)

\* Days from the signup date to the recency cutoff
Tenure(customer) == RECENT_CUTOFF - strptime(customer.signup_date)

\* C23: every churn event of the historical cohort has days_since_signup between
\* max(30, tenure // 4) and tenure inclusive, with a lower bound that does not
\* exceed the upper one; its churn_date is signup_date + days_since_signup, at
\* least 30 days after signup and never after the cutoff 2024-07-01.
C23_HistoricalChurnWithinTenure ==
    \A i \in HistoricalEvents :
        \E signup \in {strptime(ChurnedCustomer(churn_events[i]).signup_date)},
           churn_day \in {strptime(churn_events[i].churn_date)} :
            LET event == churn_events[i]
                tenure == CutoffDay - signup
                lower == IF tenure \div 4 > 30 THEN tenure \div 4 ELSE 30
            IN  /\ lower <= tenure
                /\ event.days_since_signup >= lower
                /\ event.days_since_signup <= tenure
                /\ churn_day = signup + event.days_since_signup
                /\ churn_day >= signup + 30
                /\ churn_day <= CutoffDay

\* The historical event returned is at the lower bound of a customer whose
\* tenure is 31 days (bounds 30 and 31), or at the quarter of the tenure of a
\* customer of the first day
C23_HistoricalEventAtBounds ==
    /\ ChurnReturned
    /\ \E i \in HistoricalEvents :
         LET event == churn_events[i]
             tenure == Tenure(ChurnedCustomer(event))
         IN  \/ tenure = 31 /\ event.days_since_signup = 30
             \/ tenure = RECENT_CUTOFF /\ event.days_since_signup = RECENT_CUTOFF \div 4
\* The events of the recent spike: those of the customers of the second sample
RecentEvents ==
    {i \in Indices(churn_events) :
        \E j \in Indices(recent_churned) :
            recent_churned[j].customer_id = churn_events[i].customer_id}

\* C24: every churn event of the recent spike has its churn_date inside
\* [2024-07-01, 2024-10-01] inclusive, and its days_since_signup is the number of
\* days from signup_date to churn_date and is strictly positive.
C24_RecentChurnInsideSpikeWindow ==
    \A i \in RecentEvents :
        \E signup \in {strptime(ChurnedCustomer(churn_events[i]).signup_date)},
           churn_day \in {strptime(churn_events[i].churn_date)} :
            /\ churn_day >= CutoffDay
            /\ churn_day <= SpikeEndDay
            /\ churn_events[i].days_since_signup = churn_day - signup
            /\ churn_events[i].days_since_signup > 0

\* A customer that signed up on the day before the cutoff churned on the cutoff
\* day: days_since_signup is 1
C24_ChurnOnFirstSpikeDay ==
    /\ ChurnReturned
    /\ \E i \in RecentEvents :
         /\ churn_events[i].churn_date = <<2024, 7, 1>>
         /\ ChurnedCustomer(churn_events[i]).signup_date = <<2024, 6, 30>>
         /\ churn_events[i].days_since_signup = 1
\* id is prefix followed by k written with eight digits
IsCounterId(id, prefix, k) ==
    /\ Len(id) = Len(prefix) + 8
    /\ SubSeq(id, 1, Len(prefix)) = prefix
    /\ IsDigits(SubSeq(id, Len(prefix) + 1, Len(id)))
    /\ DecimalValue(SubSeq(id, Len(prefix) + 1, Len(id))) = k

\* C25: in the lists of generate_usage_events, generate_support_tickets and
\* generate_churn_events the k-th record has the id prefix (EVT_, TKT_, CHN_)
\* followed by k zero-padded to eight digits, so the ids are unique and without
\* gaps, also when customers, tickets or churn candidates are skipped.
C25_IdsCountTheRecords ==
    /\ \A k \in Indices(usage_events) : IsCounterId(usage_events[k].event_id, "EVT_", k)
    /\ \A k \in Indices(support_tickets) : IsCounterId(support_tickets[k].ticket_id, "TKT_", k)
    /\ \A k \in Indices(churn_events) : IsCounterId(churn_events[k].churn_id, "CHN_", k)
    /\ \A j, k \in Indices(usage_events) :
          usage_events[j].event_id = usage_events[k].event_id => j = k
    /\ \A j, k \in Indices(support_tickets) :
          support_tickets[j].ticket_id = support_tickets[k].ticket_id => j = k
    /\ \A j, k \in Indices(churn_events) :
          churn_events[j].churn_id = churn_events[k].churn_id => j = k

\* generate_churn_events returned after the sampled historical customer was
\* skipped: the event of the recent spike is the first record
C25_RecordAfterSkippedCandidate ==
    /\ pc = "insert_churn_events_data"
    /\ Len(historical_churned) = 1
    /\ churn_skipped(historical_churned[1])
    /\ Len(churn_events) = 1
    /\ churn_events[1].churn_id = "CHN_00000001"
\* The executions of agent nodes so far: each appends one message under its name
AgentExecutions == {i \in Indices(messages) : IsAgentName(messages[i].name)}

\* C26: after planning current_step is the number of agent-node executions: an
\* agent node adds exactly one to it whether its call returned or raised, and
\* the supervisor leaves it alone when it routes and when it synthesizes.
C26_StepCountsAgentExecutions ==
    /\ [](plan # None => current_step = Cardinality(AgentExecutions))
    /\ [][IsAgentName(node) =>
             /\ current_step' = current_step + 1
             /\ Cardinality(AgentExecutions') = Cardinality(AgentExecutions) + 1]_vars
    /\ [][(node = "supervisor" /\ plan # None) =>
             /\ current_step' = current_step
             /\ AgentExecutions' = AgentExecutions]_vars

\* A run of three steps ended: at least one call raised and at least one returned
C26_ThreeExecutionsOneRaised ==
    /\ node = "__end__"
    /\ current_step = 3
    /\ execution_errors # <<>>
    /\ agent_outputs # <<>>
    /\ \E i \in AgentExecutions :
          /\ Len(messages[i].content) >= 7
          /\ SubSeq(messages[i].content, 1, 7) = "Error: "
\* The message of the k-th execution of an agent node
ExecutionMessage(k) ==
    messages[CHOOSE i \in AgentExecutions :
                 Cardinality({j \in AgentExecutions : j <= i}) = k]

\* The message is the one an agent node appends when its call raised (lines
\* 516, 571, 626); no output explored starts with "Error: "
IsErrorMessage(msg) ==
    Len(msg.content) >= 7 /\ SubSeq(msg.content, 1, 7) = "Error: "

\* The first 5000 characters of output are what some entry of the agent results
\* starts with
InAgentResults(output, results) ==
    LET kept == SubSeq(output, 1, IF Len(output) > 5000 THEN 5000 ELSE Len(output))
    IN  \E j \in Indices(results) :
            /\ Len(results[j].results) >= Len(kept)
            /\ SubSeq(results[j].results, 1, Len(kept)) = kept

\* The steps of the plan that were executed with a call that returned
ReturnedSteps ==
    {k \in 1..Min(Len(plan[1].steps), Cardinality(AgentExecutions)) :
        ~IsErrorMessage(ExecutionMessage(k))}

\* C27: for every step of the plan whose agent call returned, the output of the
\* call (up to the truncation at 5000 characters) is contained in the agent
\* results handed to the synthesis model, also when the same agent is named by
\* more than one step.
C27_EveryReturnedOutputSynthesized ==
    synthesis_input # None =>
        \A k \in ReturnedSteps :
            InAgentResults(ExecutionMessage(k).content, synthesis_input[1].agent_outputs)
====
